---- MODULE Spec2Model ----
(***************************************************************************)
(* Articulated-body kinematics and physics engine of the puppet animator:  *)
(* forward kinematics, FABRIK inverse kinematics, the Verlet/PD physics    *)
(* step, pose extraction and pose interpolation.                           *)
(*                                                                         *)
(* Numbers.  The source computes in IEEE doubles.  Here every length is a  *)
(* fixed-point integer counted in 1/UNIT pixel, every angle an integer     *)
(* number of degrees (Math.PI is 180), and every quotient is rounded to    *)
(* the nearest unit (RDiv).  A coordinate that the source would compute as *)
(* NaN (0 * Infinity, Infinity - Infinity, x / 0 with x = 0) is the value  *)
(* NaN below; NaN propagates and every comparison with it is false, as in  *)
(* the source.  Masses are stored in halves (MASS_UNIT = 2 per 1.0).       *)
(***************************************************************************)
EXTENDS Integers, Sequences, FiniteSets, TLC

VARIABLES
    \* ---- forward kinematics / extraction, one call at a time
    pose,         \* the PoseData argument
    fkCall,       \* which entry point was called last ("none" before any)
    skeleton,     \* result of computeSkeleton(pose)
    jointKey,     \* key argument of getParentWorldAngle
    parentAngle,  \* result of getParentWorldAngle(jointKey, pose)
    extracted,    \* result of extractPoseFromPhysicsBody(createPhysicsBodyFromPose(pose), pose)
    \* ---- solveFabrik, one call, one loop round per step
    chain,        \* the chain argument
    target,       \* the target argument
    iterations,   \* the iterations argument
    solvedChain,  \* the local solvedChain
    iter,         \* the local iter (rounds executed)
    ikpc,         \* "idle", "loop" or "done"
    ikBranch,     \* "none", "stretch" or "iterate": the branch the call took
    \* ---- updatePhysicsBody, one loop body per step
    body,         \* the PhysicsBody being stepped
    pc,           \* "idle", "integrate", "solve" or "collide"; "update" while a whole call is due
    idx,          \* index of the next element of the running forEach
    solverPass,   \* the solver loop counter (source: i)
    dtInv,        \* dt = 1 / dtInv seconds
    targetSkeleton, \* the optional target Skeleton argument
    ticks,        \* calls of updatePhysicsBody completed
    visits,       \* loop bodies executed in the running call, per phase
    \* ---- interpolatePose, one call at a time
    poseA, poseB, tArg, easing, interpolated, interpCalled,
    \* ---- usePhysics, one effect run or animation frame per step
    targetPose,       \* the targetPose prop
    isEnabled,        \* the isEnabled prop
    physicalPose,     \* the physicalPose state, the hook's return value
    physicsBodyRef,   \* physicsBodyRef.current
    animationFrameId, \* animationFrameId.current: <<>> or the pending request
    lastTimeRef,      \* lastTimeRef.current: <<>> or the time of the last frame
    now,              \* the clock, in 1/TIME_DEN s
    frames,           \* animation frames delivered
    dtLog,            \* the dt of every updatePhysicsBody call made, in 1/TIME_DEN s
    \* ---- the history manager and the App component, one handler, render or callback per step
    history,          \* useHistory's state: past, present, future
    lastOp,           \* the history operation applied last ("none" before any)
    playhead,         \* usePlayback's playhead, in 1/PH_DEN frames
    isPlaying,        \* usePlayback's isPlaying
    direction,        \* usePlayback's direction.current
    pendingBind,      \* file readers started by handleBindAsset whose onload has not run
    appPc,            \* "idle", "render" (state changed, not yet rendered) or "effect"
    targetRead,       \* the targetPose App read in its last render
    nextId            \* the next value of Date.now()

fkVars == <<pose, fkCall, skeleton, jointKey, parentAngle, extracted>>
ikVars == <<chain, target, iterations, solvedChain, iter, ikpc, ikBranch>>
physVars == <<body, pc, idx, solverPass, dtInv, targetSkeleton, ticks, visits>>
interpVars == <<poseA, poseB, tArg, easing, interpolated, interpCalled>>
hookVars == <<targetPose, isEnabled, physicalPose, physicsBodyRef, animationFrameId,
              lastTimeRef, now, frames, dtLog>>
appVars == <<history, lastOp, playhead, isPlaying, direction, pendingBind, appPc,
             targetRead, nextId>>
vars == <<fkVars, ikVars, physVars, interpVars, hookVars, appVars>>

(***************************************************************************)
(* Arithmetic                                                              *)
(***************************************************************************)
\* Fixed-point resolution: units per pixel.
UNIT == 10 * 10
\* Scale of the sine table.
TRIG == 100 * 100
\* The non-finite coordinate.
NaN == 0 - 99999999

Abs(a) == IF a < 0 THEN 0 - a ELSE a
Max(a, b) == IF a >= b THEN a ELSE b
Min(a, b) == IF a <= b THEN a ELSE b
\* a / b rounded to the nearest integer, b > 0.
RDiv(a, b) == (2 * a + b) \div (2 * b)
Px(n) == n * UNIT

RECURSIVE SqrtIter(_, _)
SqrtIter(n, x) ==
    LET y == (x + n \div x) \div 2
    IN  IF y >= x THEN x ELSE SqrtIter(n, y)
\* floor(sqrt(n))
ISqrt(n) == IF n <= 0 THEN 0 ELSE SqrtIter(n, n)
\* sqrt(n) rounded to the nearest integer
RSqrt(n) == LET f == ISqrt(n) IN IF n - f * f > f THEN f + 1 ELSE f

Point(px, py) == [x |-> px, y |-> py]
NaNPoint == Point(NaN, NaN)
IsFinite(p) == p.x # NaN /\ p.y # NaN

\* Math.hypot(dx, dy)
Hypot(dx, dy) == RSqrt(dx * dx + dy * dy)

SinTab ==
  << 0, 175, 349, 523, 698, 872, 1045, 1219, 1392, 1564, 1736, 1908, 2079,
     2250, 2419, 2588, 2756, 2924, 3090, 3256, 3420, 3584, 3746, 3907, 4067, 4226,
     4384, 4540, 4695, 4848, 5000, 5150, 5299, 5446, 5592, 5736, 5878, 6018, 6157,
     6293, 6428, 6561, 6691, 6820, 6947, 7071, 7193, 7314, 7431, 7547, 7660, 7771,
     7880, 7986, 8090, 8192, 8290, 8387, 8480, 8572, 8660, 8746, 8829, 8910, 8988,
     9063, 9135, 9205, 9272, 9336, 9397, 9455, 9511, 9563, 9613, 9659, 9703, 9744,
     9781, 9816, 9848, 9877, 9903, 9925, 9945, 9962, 9976, 9986, 9994, 9998, 10000 >>

\* Math.sin / Math.cos of an angle in degrees, scaled by TRIG.
Sin(d) ==
    LET m == d % 360
    IN  IF m <= 90 THEN SinTab[m + 1]
        ELSE IF m <= 180 THEN SinTab[180 - m + 1]
        ELSE IF m <= 270 THEN 0 - SinTab[m - 180 + 1]
        ELSE 0 - SinTab[360 - m + 1]
Cos(d) == Sin(d + 90)

\* Math.atan2(dy, dx) in degrees, in (-180, 180]; atan2(0, 0) = 0.
\* How far the direction (mx, mn) lies above the direction of d degrees.
Cross(mn, mx, d) == mn * Cos(d) - mx * Sin(d)
\* First-octant angle, 0 <= mn <= mx: the degree nearest to the direction
\* (mx, mn), found by bisection between lo (at or below it) and hi (at or above).
RECURSIVE OctantSearch(_, _, _, _)
OctantSearch(mn, mx, lo, hi) ==
    IF hi - lo <= 1
    THEN IF Abs(Cross(mn, mx, lo)) <= Abs(Cross(mn, mx, hi)) THEN lo ELSE hi
    ELSE LET mid == (lo + hi) \div 2
         IN  IF Cross(mn, mx, mid) >= 0
             THEN OctantSearch(mn, mx, mid, hi)
             ELSE OctantSearch(mn, mx, lo, mid)
OctantAngle(mn, mx) == OctantSearch(mn, mx, 0, 45)
Atan2(dy, dx) ==
    LET ax == Abs(dx)
        ay == Abs(dy)
        q  == IF ax = 0 /\ ay = 0 THEN 0
              ELSE IF ay <= ax THEN OctantAngle(ay, ax)
              ELSE 90 - OctantAngle(ax, ay)
    IN  IF dx >= 0 THEN (IF dy >= 0 THEN q ELSE 0 - q)
        ELSE (IF dy >= 0 THEN 180 - q ELSE q - 180)

(***************************************************************************)
(* Hierarchy and constants (kinematics)                                    *)
(***************************************************************************)
W == 800
H == 800
HEAD_UNIT == 64
HEAD_SIZE == 51
TORSO_HEIGHT == Px(HEAD_UNIT * 9) \div 4
WAIST_HEIGHT == Px(HEAD_UNIT * 5) \div 4
NECK_LENGTH == 0
L_ARM == Px(HEAD_UNIT * 3) \div 2
L_FOREARM == Px(HEAD_UNIT * 3) \div 2
L_HAND == Px(HEAD_UNIT * 3) \div 4
L_THIGH == Px(HEAD_UNIT * 7) \div 4
L_SHIN == Px(HEAD_UNIT * 7) \div 4
L_FOOT == Px(HEAD_UNIT * 3) \div 4

\* A key's parent: Null for the tree's root.
Null == "null"
Undefined == "undefined"

hierarchy ==
    [ ground           |-> [parent |-> Null,             children |-> <<"root">>],
      root             |-> [parent |-> "ground",         children |-> <<"torso", "waist">>],
      torso            |-> [parent |-> "root",           children |-> <<"head", "left.shoulder", "right.shoulder">>],
      waist            |-> [parent |-> "root",           children |-> <<"left.hip", "right.hip">>],
      head             |-> [parent |-> "torso",          children |-> <<>>] ]
    @@ ("left.shoulder"  :> [parent |-> "torso",          children |-> <<"left.elbow">>])
    @@ ("left.elbow"     :> [parent |-> "left.shoulder",  children |-> <<"left.hand">>])
    @@ ("left.hand"      :> [parent |-> "left.elbow",     children |-> <<>>])
    @@ ("right.shoulder" :> [parent |-> "torso",          children |-> <<"right.elbow">>])
    @@ ("right.elbow"    :> [parent |-> "right.shoulder", children |-> <<"right.hand">>])
    @@ ("right.hand"     :> [parent |-> "right.elbow",    children |-> <<>>])
    @@ ("left.hip"       :> [parent |-> "waist",          children |-> <<"left.knee">>])
    @@ ("left.knee"      :> [parent |-> "left.hip",       children |-> <<"left.foot">>])
    @@ ("left.foot"      :> [parent |-> "left.knee",      children |-> <<>>])
    @@ ("right.hip"      :> [parent |-> "waist",          children |-> <<"right.knee">>])
    @@ ("right.knee"     :> [parent |-> "right.hip",      children |-> <<"right.foot">>])
    @@ ("right.foot"     :> [parent |-> "right.knee",     children |-> <<>>])

\* Object.keys(hierarchy), in insertion order.
hierarchyKeys ==
    << "ground", "root", "torso", "waist", "head",
       "left.shoulder", "left.elbow", "left.hand",
       "right.shoulder", "right.elbow", "right.hand",
       "left.hip", "left.knee", "left.foot",
       "right.hip", "right.knee", "right.foot" >>

\* key.split('.'): the parts of a dotted key.
SplitKey ==
    ( "left.shoulder"  :> <<"left", "shoulder">>  @@ "left.elbow"  :> <<"left", "elbow">>
   @@ "left.hand"      :> <<"left", "hand">>      @@ "left.hip"    :> <<"left", "hip">>
   @@ "left.knee"      :> <<"left", "knee">>      @@ "left.foot"   :> <<"left", "foot">>
   @@ "right.shoulder" :> <<"right", "shoulder">> @@ "right.elbow" :> <<"right", "elbow">>
   @@ "right.hand"     :> <<"right", "hand">>     @@ "right.hip"   :> <<"right", "hip">>
   @@ "right.knee"     :> <<"right", "knee">>     @@ "right.foot"  :> <<"right", "foot">>
   @@ "left.toe"       :> <<"left", "toe">> )
split(key) == IF key \in DOMAIN SplitKey THEN SplitKey[key] ELSE <<key>>

\* pose[side]
Side(p, side) == IF side = "left" THEN p.left ELSE p.right

getDefaultPose ==
    [ groundTilt |-> 0,
      offset |-> Point(0, 0),
      torso |-> 0, waist |-> 0, head |-> 0,
      left  |-> [shoulder |-> 180, elbow |-> 0, hand |-> 0, hip |-> 100, knee |-> 0, foot |-> 0],
      right |-> [shoulder |-> 0,   elbow |-> 0, hand |-> 0, hip |-> 80,  knee |-> 0, foot |-> 0] ]

rotatePoint(px, py, angle) ==
    Point(RDiv(px * Cos(angle) - py * Sin(angle), TRIG),
          RDiv(px * Sin(angle) + py * Cos(angle), TRIG))

getEndPoint(start, angle, length) ==
    Point(start.x + RDiv(Cos(angle) * length, TRIG),
          start.y + RDiv(Sin(angle) * length, TRIG))

Bone(key, start, end, width, angle) ==
    [key |-> key, start |-> start, end |-> end, width |-> width, angle |-> angle,
     shape |-> "custom"]

\* No Skeleton (an omitted optional argument) and no body.
NoSkeleton == [joints |-> <<>>, bones |-> <<>>]
NoBody == [particles |-> <<>>, constraints |-> <<>>, particleMap |-> <<>>]

\* Insertion order of computeSkeleton's jointCache (Object.entries order).
jointOrder ==
    << "root", "ground", "torso", "waist", "head",
       "left.shoulder", "left.elbow", "left.hand",
       "right.shoulder", "right.elbow", "right.hand",
       "left.hip", "left.knee", "left.foot",
       "right.hip", "right.knee", "right.foot" >>

\* (mutant) the leg bone records the direction it is drawn along
LegBoneAngleAsDirection(dirAngle) == dirAngle
\* The bone angle stored for a leg segment whose direction is dirAngle.
LegBoneAngle(dirAngle) == dirAngle - 90

\* One arm of computeSkeleton: the forEach body of "Arms & Shoulder Joints".
armOf(p, side, neckPos, torsoAngle) ==
    LET shoulderWidth == Px(48)
        shoulderX == IF side = "left" THEN 0 - shoulderWidth ELSE shoulderWidth
        sOffset == rotatePoint(shoulderX, 0, torsoAngle)
        sPos == Point(neckPos.x + sOffset.x, neckPos.y + sOffset.y)
        sAngle == torsoAngle + Side(p, side).shoulder
        ePos == getEndPoint(sPos, sAngle, L_ARM)
        eAngle == sAngle + Side(p, side).elbow
        hPos == getEndPoint(ePos, eAngle, L_FOREARM)
        hAngle == eAngle + Side(p, side).hand
        handEnd == getEndPoint(hPos, hAngle, L_HAND)
    IN  [ joints |-> (side \o ".shoulder" :> sPos) @@ (side \o ".elbow" :> ePos)
                     @@ (side \o ".hand" :> hPos),
          bones |-> << Bone(side \o ".shoulder", sPos, ePos, 36, sAngle),
                       Bone(side \o ".elbow", ePos, hPos, 28, eAngle),
                       Bone(side \o ".hand", hPos, handEnd, 16, hAngle) >> ]

\* One leg of computeSkeleton: the forEach body of "Lower Body & Hip Joints".
legOf(p, side, waistEnd, waistAngle) ==
    LET hipWidth == Px(29)
        hipX == IF side = "left" THEN 0 - hipWidth ELSE hipWidth
        hOffset == rotatePoint(hipX, 0, waistAngle)
        hPos == Point(waistEnd.x + hOffset.x, waistEnd.y + hOffset.y)
        hAngle == waistAngle + Side(p, side).hip
        kPos == getEndPoint(hPos, hAngle, L_THIGH)
        kAngle == hAngle + Side(p, side).knee
        fPos == getEndPoint(kPos, kAngle, L_SHIN)
        fAngle == kAngle + Side(p, side).foot
        footEnd == getEndPoint(fPos, fAngle, L_FOOT)
    IN  [ joints |-> (side \o ".hip" :> hPos) @@ (side \o ".knee" :> kPos)
                     @@ (side \o ".foot" :> fPos),
          bones |-> << Bone(side \o ".hip", hPos, kPos, 44, LegBoneAngle(hAngle)),
                       Bone(side \o ".knee", kPos, fPos, 32, LegBoneAngle(kAngle)),
                       Bone(side \o ".foot", fPos, footEnd, 18, LegBoneAngle(fAngle)) >> ]

computeSkeleton(p) ==
    LET groundBaseYOffset == WAIST_HEIGHT + L_THIGH + L_SHIN
        groundBasePos == Point(Px(W) \div 2, Px(650) + p.offset.y)
        rootPos == Point(Px(W) \div 2 + p.offset.x, groundBasePos.y - groundBaseYOffset)
        groundAngle == p.groundTilt
        torsoAngle == groundAngle + p.torso
        waistAngle == groundAngle + p.waist
        neckPos == getEndPoint(rootPos, torsoAngle - 90, TORSO_HEIGHT)
        waistEnd == getEndPoint(rootPos, waistAngle + 90, WAIST_HEIGHT)
        neckEndPos == getEndPoint(neckPos, torsoAngle - 90, NECK_LENGTH)
        headAngle == torsoAngle + p.head
        headEnd == getEndPoint(neckPos, headAngle, Px(1))
        la == armOf(p, "left", neckPos, torsoAngle)
        ra == armOf(p, "right", neckPos, torsoAngle)
        ll == legOf(p, "left", waistEnd, waistAngle)
        rl == legOf(p, "right", waistEnd, waistAngle)
    IN  [ joints |-> [root |-> rootPos, ground |-> groundBasePos, torso |-> neckPos,
                      waist |-> waistEnd, head |-> neckPos]
                     @@ la.joints @@ ra.joints @@ ll.joints @@ rl.joints,
          bones |-> << Bone("ground", groundBasePos, groundBasePos, 100, groundAngle),
                       Bone("torso", rootPos, neckPos, 100, torsoAngle),
                       Bone("waist", rootPos, waistEnd, 60, waistAngle),
                       Bone("neck", neckPos, neckEndPos, 13, torsoAngle),
                       Bone("head", neckPos, headEnd, HEAD_SIZE, headAngle) >>
                    \o la.bones \o ra.bones \o ll.bones \o rl.bones ]

\* A number | null result.
Num(v) == [isNull |-> FALSE, value |-> v]
NullResult == [isNull |-> TRUE, value |-> 0]

\* hierarchy[key]?.parent
parentOf(key) == IF key \in DOMAIN hierarchy THEN hierarchy[key].parent ELSE Undefined

\* !parentKey
Falsy(k) == k \in {Null, Undefined, ""}

getParentWorldAngle(key, p) ==
    LET parentKey == parentOf(key)
        parts == split(parentKey)
        side == parts[1]
        jointName == IF Len(parts) >= 2 THEN parts[2] ELSE Undefined
    IN  IF Falsy(parentKey) THEN Num(0)
        ELSE IF parentKey = "ground" THEN Num(p.groundTilt)
        ELSE IF parentKey = "torso" THEN Num(p.groundTilt + p.torso)
        ELSE IF parentKey = "waist" THEN Num(p.groundTilt + p.waist)
        ELSE IF parentKey = "root" THEN Num(p.groundTilt)
        ELSE IF jointName = "shoulder" THEN Num(p.groundTilt + p.torso + Side(p, side).shoulder)
        ELSE IF jointName = "elbow"
             THEN Num(p.groundTilt + p.torso + Side(p, side).shoulder + Side(p, side).elbow)
        ELSE IF jointName = "hip" THEN Num(p.groundTilt + p.waist + Side(p, side).hip)
        ELSE IF jointName = "knee"
             THEN Num(p.groundTilt + p.waist + Side(p, side).hip + Side(p, side).knee)
        ELSE NullResult

(***************************************************************************)
(* Physics body: creation and pose extraction                              *)
(***************************************************************************)
\* Masses are stored in halves: 1.0 is MASS_UNIT.
MASS_UNIT == 1 + 1

\* key.includes(part), for the joint keys of the hierarchy.
includes(key, part) == key \in {part, "left." \o part, "right." \o part}

\* Every particle with the default mass.
massOfUniform(key) == MASS_UNIT

\* The mass createPhysicsBodyFromPose gives the particle of joint key.
massOf(key) ==
    IF includes(key, "hand") \/ includes(key, "foot") THEN MASS_UNIT \div 2
    ELSE IF key \in {"root", "waist", "torso", "neck"} THEN 3 * MASS_UNIT
    ELSE MASS_UNIT

Particle(id, pos, prevPos, mass) ==
    [id |-> id, pos |-> pos, prevPos |-> prevPos, mass |-> mass]

Constraint(a, b, restLength) ==
    [particleAIndex |-> a, particleBIndex |-> b, restLength |-> restLength]

\* Keys that get a particle, in particle order (indices are 1-based here).
particleKeys == SelectSeq(jointOrder, LAMBDA k : k # "ground")

\* The (parentKey, childKey) pairs in the order the constraint loops visit them.
RECURSIVE edgesFrom(_)
edgesFrom(k) ==
    IF k > Len(hierarchyKeys) THEN <<>>
    ELSE LET key == hierarchyKeys[k]
             ch == hierarchy[key].children
         IN  [j \in 1..Len(ch) |-> <<key, ch[j]>>] \o edgesFrom(k + 1)

\* restLength > 0.1
hasLength(restLength) == restLength * 10 > UNIT

RECURSIVE constraintsFrom(_, _, _, _)
constraintsFrom(edges, k, particles, particleMap) ==
    IF k > Len(edges) THEN <<>>
    ELSE LET parentKey == edges[k][1]
             childKey == edges[k][2]
             rest == constraintsFrom(edges, k + 1, particles, particleMap)
         IN  IF parentKey = "ground" \/ parentKey \notin DOMAIN particleMap
                \/ childKey \notin DOMAIN particleMap
             THEN rest
             ELSE LET a == particleMap[parentKey]
                      b == particleMap[childKey]
                      restLength == Hypot(particles[b].pos.x - particles[a].pos.x,
                                          particles[b].pos.y - particles[a].pos.y)
                  IN  IF hasLength(restLength)
                      THEN <<Constraint(a, b, restLength)>> \o rest
                      ELSE rest

createPhysicsBodyFromPose(p) ==
    LET sk == computeSkeleton(p)
        particles == [k \in 1..Len(particleKeys) |->
                        Particle(particleKeys[k], sk.joints[particleKeys[k]],
                                 sk.joints[particleKeys[k]], massOf(particleKeys[k]))]
        particleMap == [key \in {particleKeys[k] : k \in 1..Len(particleKeys)} |->
                          CHOOSE k \in 1..Len(particleKeys) : particleKeys[k] = key]
    IN  [ particles |-> particles,
          constraints |-> constraintsFrom(edgesFrom(1), 1, particles, particleMap),
          particleMap |-> particleMap ]

\* newPose[parts[0]][parts[1]] = v, or newPose[key] = v
setAngle(p, key, v) ==
    LET parts == split(key)
    IN  IF Len(parts) = 2
        THEN [p EXCEPT ![parts[1]][parts[2]] = v]
        ELSE [p EXCEPT ![key] = v]

\* getParticlePos(key) is defined
hasParticle(b, key) == key \in DOMAIN b.particleMap
getParticlePos(b, key) == b.particles[b.particleMap[key]].pos

\* calculateAngles(parentKey, parentWorldAngle): children k.. of parentKey, then
\* returns the pose written so far.
RECURSIVE calculateAngles(_, _, _, _, _)
calculateAngles(b, parentKey, parentWorldAngle, k, newPose) ==
    LET ch == hierarchy[parentKey].children
    IN  IF k > Len(ch) THEN newPose
        ELSE LET childKey == ch[k]
             IN  IF hasParticle(b, parentKey) /\ hasParticle(b, childKey)
                 THEN LET parentPos == getParticlePos(b, parentKey)
                          childPos == getParticlePos(b, childKey)
                          dx == childPos.x - parentPos.x
                          dy == childPos.y - parentPos.y
                          childWorldAngle == Atan2(dy, dx)
                          localAngle == childWorldAngle - parentWorldAngle
                          written == setAngle(newPose, childKey, localAngle)
                          below == calculateAngles(b, childKey, childWorldAngle, 1, written)
                      IN  calculateAngles(b, parentKey, parentWorldAngle, k + 1, below)
                 ELSE calculateAngles(b, parentKey, parentWorldAngle, k + 1, newPose)

\* (mutant) the ankle-height distance is not added back
offsetOfRootNoAnkle(rootPos) == Point(rootPos.x - Px(W) \div 2, rootPos.y - Px(650))
\* newPose.offset.x = rootPos.x - (W / 2);
\* newPose.offset.y = (rootPos.y + groundBaseYOffset) - 650
offsetOfRoot(rootPos) ==
    LET groundBaseYOffset == WAIST_HEIGHT + L_THIGH + L_SHIN
    IN  Point(rootPos.x - Px(W) \div 2, (rootPos.y + groundBaseYOffset) - Px(650))

extractPoseFromPhysicsBody(b, initialPose) ==
    IF hasParticle(b, "root") /\ hasParticle(b, "torso") /\ hasParticle(b, "waist")
    THEN LET rootPos == getParticlePos(b, "root")
             torsoPos == getParticlePos(b, "torso")
             waistPos == getParticlePos(b, "waist")
             avgCoreX == RDiv(torsoPos.x + waistPos.x, 2)
             avgCoreY == RDiv(torsoPos.y + waistPos.y, 2)
             groundAngle == Atan2(avgCoreY - rootPos.y, avgCoreX - rootPos.x) - 90
             newPose == [initialPose EXCEPT
                            !.groundTilt = groundAngle,
                            !.offset = offsetOfRoot(rootPos)]
         IN  calculateAngles(b, "root", groundAngle, 1, newPose)
    ELSE initialPose

(***************************************************************************)
(* Inverse kinematics: solveFabrik                                         *)
(***************************************************************************)
DEFAULT_ITERATIONS == 10
\* tolerance = 0.1
tolerance == UNIT \div 10

\* a > b on numbers one of which may be NaN
Greater(a, b) == a # NaN /\ b # NaN /\ a > b

\* distance(p1, p2)
distance(p1, p2) ==
    IF IsFinite(p1) /\ IsFinite(p2) THEN Hypot(p1.x - p2.x, p1.y - p2.y) ELSE NaN

\* lengths[i] = distance(chain[i], chain[i+1]) of the input chain
lengthsOf(c) == [k \in 1..(Len(c) - 1) |-> distance(c[k], c[k + 1])]

RECURSIVE sumSeq(_, _)
sumSeq(sq, k) == IF k > Len(sq) THEN 0 ELSE sq[k] + sumSeq(sq, k + 1)
totalLengthOf(c) == sumSeq(lengthsOf(c), 1)

\* lambda = len / r with r = distance(a, b); the point (1 - lambda) * a + lambda * b.
\* r = 0 makes lambda Infinity (or NaN) and both coordinates NaN.
reproject(a, b, len) ==
    LET r == distance(a, b)
    IN  IF r = NaN \/ len = NaN \/ r = 0 THEN NaNPoint
        ELSE Point(a.x + RDiv((b.x - a.x) * len, r), a.y + RDiv((b.y - a.y) * len, r))

\* (mutant) every joint is projected from the root instead of from its predecessor
stretchFromRoot(sc, lengths, tgt, k) ==
    [j \in 1..Len(sc) |-> IF j = 1 THEN sc[1] ELSE reproject(sc[1], tgt, lengths[j - 1])]
\* The stretch loop, from index k on (ik.ts 33-40).
RECURSIVE stretchFrom(_, _, _, _)
stretchFrom(sc, lengths, tgt, k) ==
    IF k > Len(sc) - 1 THEN sc
    ELSE stretchFrom([sc EXCEPT ![k + 1] = reproject(sc[k], tgt, lengths[k])],
                     lengths, tgt, k + 1)

\* The forward pass, from index k down to 1 (ik.ts 49-56).
RECURSIVE forwardFrom(_, _, _)
forwardFrom(sc, lengths, k) ==
    IF k < 1 THEN sc
    ELSE forwardFrom([sc EXCEPT ![k] = reproject(sc[k + 1], sc[k], lengths[k])],
                     lengths, k - 1)

\* The backward pass, from index k up (ik.ts 60-67).
RECURSIVE backwardFrom(_, _, _)
backwardFrom(sc, lengths, k) ==
    IF k > Len(sc) - 1 THEN sc
    ELSE backwardFrom([sc EXCEPT ![k + 1] = reproject(sc[k], sc[k + 1], lengths[k])],
                      lengths, k + 1)

\* (mutant) the backward pass starts from wherever the forward pass left the root
fabrikRoundUnpinned(sc, lengths, root, tgt) ==
    backwardFrom(forwardFrom([sc EXCEPT ![Len(sc)] = tgt], lengths, Len(sc) - 1), lengths, 1)
\* One round of the while loop body (ik.ts 47-67).
fabrikRound(sc, lengths, root, tgt) ==
    LET pinned == [sc EXCEPT ![Len(sc)] = tgt]
        fwd == forwardFrom(pinned, lengths, Len(sc) - 1)
        rooted == [fwd EXCEPT ![1] = root]
    IN  backwardFrom(rooted, lengths, 1)

\* The while condition (ik.ts 46).
loopContinues(sc, tgt, it, its) ==
    Greater(distance(sc[Len(sc)], tgt), tolerance) /\ it < its

\* distToTarget > totalLength (ik.ts 32)
outOfReach(c, tgt) == distance(c[1], tgt) > totalLengthOf(c)

(***************************************************************************)
(* Physics step: updatePhysicsBody                                         *)
(***************************************************************************)
\* GRAVITY = { x: 0, y: 9.8 * 100 }, in pixels per second squared
GRAVITY == [x |-> 0, y |-> 980]
\* FRICTION = 0.99, in hundredths
FRICTION == 99
\* GROUND_FRICTION = 0.85, in hundredths
GROUND_FRICTION == 85
SOLVER_ITERATIONS == 10
GROUND_PLANE_Y == Px(H - 40)
\* STIFFNESS = 0.6 and DAMPING = 0.4, in tenths
STIFFNESS == 6
DAMPING == 4

\* (mutant) no particle is ever steered
hasTargetForNone(tgt, id) == FALSE
\* if (targetSkeleton) { const targetPos = targetSkeleton.joints[p.id]; if (targetPos)
hasTargetFor(tgt, id) == tgt # NoSkeleton /\ id \in DOMAIN tgt.joints

\* (mutant) integration rebuilds the particle with the default mass
integrateParticleRebuilt(p, n, tgt) == Particle(p.id, p.pos, p.prevPos, MASS_UNIT)
\* The forEach body of phase 1 for one particle; dt = 1 / n.
integrateParticle(p, n, tgt) ==
    IF p.mass = 0 THEN p
    ELSE IF ~IsFinite(p.pos) \/ ~IsFinite(p.prevPos)
    THEN [p EXCEPT !.prevPos = p.pos, !.pos = NaNPoint]
    ELSE LET vx == RDiv((p.pos.x - p.prevPos.x) * FRICTION, 100)
             vy == RDiv((p.pos.y - p.prevPos.y) * FRICTION, 100)
             steer == hasTargetFor(tgt, p.id)
             fx == IF steer
                   THEN RDiv((tgt.joints[p.id].x - p.pos.x) * STIFFNESS, 10)
                        + RDiv((0 - vx) * DAMPING, 10)
                   ELSE 0
             fy == IF steer
                   THEN RDiv((tgt.joints[p.id].y - p.pos.y) * STIFFNESS, 10)
                        + RDiv((0 - vy) * DAMPING, 10)
                   ELSE 0
             ax == Px(GRAVITY.x) + RDiv(fx * MASS_UNIT, p.mass)
             ay == Px(GRAVITY.y) + RDiv(fy * MASS_UNIT, p.mass)
         IN  [p EXCEPT !.prevPos = p.pos,
                       !.pos = Point(p.pos.x + vx + RDiv(ax, n * n),
                                     p.pos.y + vy + RDiv(ay, n * n))]

\* (mutant) no constraint is ever skipped for its distance
neverDegenerate(dist) == FALSE
\* if (dist < 0.001) return
degenerate(dist) == dist * 1000 < UNIT

\* (mutant) each endpoint's share is the other endpoint's mass
shareOfOther(mass, totalMass) == totalMass - mass
\* pA.mass > 0 ? pA.mass / totalMass : 1, as the numerator over totalMass
shareOf(mass, totalMass) == IF mass > 0 THEN mass ELSE totalMass

\* distance between the endpoints of constraint c
constraintDist(ps, c) ==
    distance(ps[c.particleAIndex].pos, ps[c.particleBIndex].pos)

\* delta * diff * share, with diff = (dist - restLength) / dist and
\* share = shareNum / totalMass
correction(delta, dist, restLength, shareNum, totalMass) ==
    RDiv(delta * (dist - restLength) * shareNum, dist * totalMass)

\* The forEach body of phase 2 for one constraint.
solveConstraint(ps, c) ==
    LET pA == ps[c.particleAIndex]
        pB == ps[c.particleBIndex]
        dist == constraintDist(ps, c)
        totalMass == pA.mass + pB.mass
    IN  IF dist # NaN /\ degenerate(dist) THEN ps
        ELSE IF totalMass = 0 THEN ps
        ELSE IF dist = NaN \/ dist = 0
        THEN [ps EXCEPT ![c.particleAIndex].pos = NaNPoint,
                        ![c.particleBIndex].pos = NaNPoint]
        ELSE LET dx == pB.pos.x - pA.pos.x
                 dy == pB.pos.y - pA.pos.y
                 pAShare == shareOf(pA.mass, totalMass)
                 pBShare == shareOf(pB.mass, totalMass)
                 movedA == [ps EXCEPT ![c.particleAIndex].pos =
                              Point(pA.pos.x + correction(dx, dist, c.restLength, pBShare, totalMass),
                                    pA.pos.y + correction(dy, dist, c.restLength, pBShare, totalMass))]
                 qB == movedA[c.particleBIndex]
             IN  [movedA EXCEPT ![c.particleBIndex].pos =
                    Point(qB.pos.x - correction(dx, dist, c.restLength, pAShare, totalMass),
                          qB.pos.y - correction(dy, dist, c.restLength, pAShare, totalMass))]

\* (mutant) the left bound is not enforced
collideNoLeftBound(p) ==
    LET grounded ==
            IF Greater(p.pos.y, GROUND_PLANE_Y)
            THEN [p EXCEPT !.pos.y = GROUND_PLANE_Y,
                           !.prevPos.y = GROUND_PLANE_Y + RDiv(p.pos.y - p.prevPos.y, 10),
                           !.prevPos.x = IF includes(p.id, "foot")
                                         THEN p.pos.x
                                         ELSE p.pos.x - RDiv((p.pos.x - p.prevPos.x) * GROUND_FRICTION, 100)]
            ELSE p
    IN  IF Greater(grounded.pos.x, Px(W - 10)) THEN [grounded EXCEPT !.pos.x = Px(W - 10)]
        ELSE grounded
\* The forEach body of phase 3 for one particle.
collideParticle(p) ==
    LET grounded ==
            IF Greater(p.pos.y, GROUND_PLANE_Y)
            THEN LET velx == p.pos.x - p.prevPos.x
                     vely == p.pos.y - p.prevPos.y
                 IN  [p EXCEPT !.pos.y = GROUND_PLANE_Y,
                               !.prevPos.y = GROUND_PLANE_Y + RDiv(vely, 10),
                               !.prevPos.x = IF includes(p.id, "foot")
                                             THEN p.pos.x
                                             ELSE p.pos.x - RDiv(velx * GROUND_FRICTION, 100)]
            ELSE p
        left == IF Greater(Px(10), grounded.pos.x)
                THEN [grounded EXCEPT !.pos.x = Px(10)] ELSE grounded
    IN  IF Greater(left.pos.x, Px(W - 10)) THEN [left EXCEPT !.pos.x = Px(W - 10)] ELSE left

\* (mutant) the solver stops after its first pass
solverFinishedAfterOne(pass) == pass >= 1
\* (mutant) the integration loop stops one particle short
integrateFinishedEarly(i, b) == i >= Len(b.particles)
\* Loop exits of updatePhysicsBody.
integrateFinished(i, b) == i > Len(b.particles)
passFinished(i, b) == i > Len(b.constraints)
solverFinished(pass) == pass >= SOLVER_ITERATIONS
collideFinished(i, b) == i > Len(b.particles)

\* The three phases of one call, each over its whole loop.
integrateAll(b, n, tgt) ==
    [b EXCEPT !.particles = [k \in 1..Len(@) |-> integrateParticle(@[k], n, tgt)]]

\* body.constraints.forEach from constraint i on: each correction is applied to
\* the positions the earlier ones left
RECURSIVE relaxationPass(_, _)
relaxationPass(b, i) ==
    IF passFinished(i, b) THEN b
    ELSE relaxationPass([b EXCEPT !.particles = solveConstraint(@, b.constraints[i])], i + 1)

\* for (let i = 0; i < SOLVER_ITERATIONS; i++) from pass number pass on
RECURSIVE relaxation(_, _)
relaxation(b, pass) ==
    IF solverFinished(pass) THEN b
    ELSE relaxation(relaxationPass(b, 1), pass + 1)

collideAll(b) ==
    [b EXCEPT !.particles = [k \in 1..Len(@) |-> collideParticle(@[k])]]

\* updatePhysicsBody(body, dt, targetSkeleton) as one step; dt = 1 / n
updatePhysicsBody(b, n, tgt) == collideAll(relaxation(integrateAll(b, n, tgt), 0))

(***************************************************************************)
(* Pose interpolation                                                      *)
(*                                                                         *)
(* t is counted in 1/T_DEN; an eased time is counted in 1/EASE_DEN; the    *)
(* numbers of an interpolated pose are counted in 1/EASE_DEN of the unit   *)
(* of the input poses, so that a * (1 - e) + b * e is computed exactly.    *)
(***************************************************************************)
T_DEN == 2 * 2
EASE_DEN == 2 * TRIG

\* (mutant) easeInOutSine without the factor 0.5
sineEaseNoHalf(t) == 2 * (TRIG - Cos((180 * t) \div T_DEN))
\* const linearEase = (t) => t
linearEase(t) == (t * EASE_DEN) \div T_DEN
\* const sineEase = (t) => 0.5 * (1 - Math.cos(t * Math.PI))
sineEase(t) == TRIG - Cos((180 * t) \div T_DEN)

easingFn(name, t) == IF name = "linear" THEN linearEase(t) ELSE sineEase(t)

\* typeof a[key] === 'object', for the fields of a PoseData
isObjectField(key) == key \in {"offset", "left", "right"}

\* the numeric case: a * (1 - easedT) + b * easedT
lerp(a, b, t, name) ==
    LET easedT == easingFn(name, t)
    IN  a * (EASE_DEN - easedT) + b * easedT

\* the object case, over the keys of a that are in b
recursiveInterpolate(a, b, t, name) ==
    [key \in DOMAIN a \cap DOMAIN b |->
        IF isObjectField(key)
        THEN [k2 \in DOMAIN a[key] \cap DOMAIN b[key] |-> lerp(a[key][k2], b[key][k2], t, name)]
        ELSE lerp(a[key], b[key], t, name)]

\* (mutant) t is used as given
interpolatePoseUnclamped(a, b, t, name) == recursiveInterpolate(a, b, t, name)
interpolatePose(a, b, t, name) ==
    LET clampedT == Max(0, Min(T_DEN, t))
    IN  recursiveInterpolate(a, b, clampedT, name)

(***************************************************************************)
(* History: getInitialHistory, pushHistory, undoHistory, redoHistory       *)
(* The states kept are Timelines. An object whose key order can vary (the  *)
(* assets of a frame) is a sequence of <<key, value>> pairs in insertion   *)
(* order; the keys of a frame and of a pose are always inserted in the     *)
(* same order and are records.                                             *)
(***************************************************************************)
\* What JSON text holds for a NaN number: null.
JsonNull == 0 - 99999998
jsonNumber(v) == IF v = NaN THEN JsonNull ELSE v

\* JSON.parse(JSON.stringify(pose))
jsonPose(p) ==
    [k \in DOMAIN p |->
        IF isObjectField(k) THEN [j \in DOMAIN p[k] |-> jsonNumber(p[k][j])]
        ELSE jsonNumber(p[k])]

\* A frame without the optional assets key, and one with it.
NoAssets == [has |-> FALSE, entries |-> <<>>]
Assets(entries) == [has |-> TRUE, entries |-> entries]
Frame(id, p, assets) == [id |-> id, pose |-> p, assets |-> assets]

\* JSON.stringify(timeline), as the value the text denotes: two timelines
\* have the same text exactly when these values are equal (numbers with NaN
\* written as null, keys in insertion order, a missing key left out).
stringify(timeline) ==
    [k \in 1..Len(timeline.frames) |->
        [timeline.frames[k] EXCEPT !.pose = jsonPose(@)]]

getInitialHistory(initialState) ==
    [past |-> <<>>, present |-> initialState, future |-> <<>>]

pushHistory(h, newState) ==
    IF stringify(newState) = stringify(h.present) THEN h
    ELSE [past |-> Append(h.past, h.present), present |-> newState, future |-> <<>>]

\* (mutant) undo drops the present instead of moving it to the future
undoHistoryForgetful(h) ==
    IF Len(h.past) = 0 THEN h
    ELSE [past |-> SubSeq(h.past, 1, Len(h.past) - 1),
          present |-> h.past[Len(h.past)],
          future |-> h.future]
undoHistory(h) ==
    IF Len(h.past) = 0 THEN h
    ELSE [past |-> SubSeq(h.past, 1, Len(h.past) - 1),
          present |-> h.past[Len(h.past)],
          future |-> <<h.present>> \o h.future]

redoHistory(h) ==
    IF Len(h.future) = 0 THEN h
    ELSE [past |-> Append(h.past, h.present),
          present |-> h.future[1],
          future |-> Tail(h.future)]

\* useHistory
canUndo(h) == Len(h.past) > 0
canRedo(h) == Len(h.future) > 0

(***************************************************************************)
(* usePuppet: the handlers, as the history they leave. timeline is the     *)
(* Timeline the handler's closure holds, h the history the queued updater  *)
(* is applied to; indices are 0-based as in the source.                    *)
(***************************************************************************)
\* timeline.frames[i] is not undefined
hasFrame(timeline, i) == i >= 0 /\ i < Len(timeline.frames)

addFrame(h, timeline, currentKeyframeIndex, id) ==
    LET frs == timeline.frames
        currentFrame == IF hasFrame(timeline, currentKeyframeIndex)
                        THEN frs[currentKeyframeIndex + 1] ELSE frs[1]
        newFrame == Frame(id, jsonPose(currentFrame.pose), Assets(currentFrame.assets.entries))
        cut == Min(currentKeyframeIndex + 1, Len(frs))
        newFrames == SubSeq(frs, 1, cut) \o <<newFrame>> \o SubSeq(frs, cut + 1, Len(frs))
    IN  pushHistory(h, [timeline EXCEPT !.frames = newFrames])

\* (mutant) the last frame can be deleted too
deleteFrameUnguarded(h, timeline, currentKeyframeIndex) ==
    LET frs == timeline.frames
        kept == {k \in 1..Len(frs) : k - 1 # currentKeyframeIndex}
        newFrames == [k \in 1..Cardinality(kept) |->
                        frs[IF k - 1 < currentKeyframeIndex THEN k ELSE k + 1]]
    IN  pushHistory(h, [timeline EXCEPT !.frames = newFrames])
deleteFrame(h, timeline, currentKeyframeIndex) ==
    IF Len(timeline.frames) <= 1 THEN h
    ELSE LET frs == timeline.frames
             kept == {k \in 1..Len(frs) : k - 1 # currentKeyframeIndex}
             newFrames == [k \in 1..Cardinality(kept) |->
                             frs[IF k - 1 < currentKeyframeIndex THEN k ELSE k + 1]]
         IN  pushHistory(h, [timeline EXCEPT !.frames = newFrames])

commitPose(h, timeline, newPose, currentKeyframeIndex) ==
    IF ~hasFrame(timeline, currentKeyframeIndex) THEN h
    ELSE pushHistory(h, [timeline EXCEPT !.frames[currentKeyframeIndex + 1].pose = newPose])

\* { ...(assets || {}), [partKey]: assetDataUrl }: an existing key keeps its
\* place, a new key goes last
withAsset(assets, partKey, assetDataUrl) ==
    LET es == assets.entries
    IN  Assets(IF \E k \in 1..Len(es) : es[k][1] = partKey
               THEN [k \in 1..Len(es) |->
                        IF es[k][1] = partKey THEN <<partKey, assetDataUrl>> ELSE es[k]]
               ELSE Append(es, <<partKey, assetDataUrl>>))

bindAsset(h, timeline, partKey, assetDataUrl, currentKeyframeIndex) ==
    IF ~hasFrame(timeline, currentKeyframeIndex) THEN h
    ELSE pushHistory(h, [timeline EXCEPT !.frames[currentKeyframeIndex + 1].assets =
                                      withAsset(@, partKey, assetDataUrl)])

(***************************************************************************)
(* usePlayback and App's render                                            *)
(***************************************************************************)
\* The playhead is kept in halves of a frame.
PH_DEN == 2
\* Math.round(playhead), for a playhead that is not negative
roundPlayhead(ph) == (2 * ph + PH_DEN) \div (2 * PH_DEN)

\* The setPlayhead updater of animate; delta / 1000 * playbackSpeed in 1/PH_DEN.
nextPlayhead(currentPlayhead, dir, delta, numFrames) ==
    LET maxPlayhead == (numFrames - 1) * PH_DEN
        nxt == currentPlayhead + dir * delta
    IN  IF maxPlayhead <= 0 THEN [playhead |-> 0, direction |-> dir]
        ELSE IF nxt >= maxPlayhead THEN [playhead |-> maxPlayhead, direction |-> 0 - 1]
        ELSE IF nxt <= 0 THEN [playhead |-> 0, direction |-> 1]
        ELSE [playhead |-> nxt, direction |-> dir]

\* the effect on [numFrames, playhead]
capPlayhead(ph, numFrames) ==
    LET maxPlayhead == IF numFrames > 0 THEN (numFrames - 1) * PH_DEN ELSE 0
    IN  IF ph > maxPlayhead THEN maxPlayhead ELSE ph

\* An interpolated pose brought back from 1/EASE_DEN to whole degrees and units.
descale(p) ==
    [k \in DOMAIN p |->
        IF isObjectField(k) THEN [j \in DOMAIN p[k] |-> RDiv(p[k][j], EASE_DEN)]
        ELSE RDiv(p[k], EASE_DEN)]

\* targetPose when timeline.frames[currentKeyframeIndex] is undefined
NoTarget == [defined |-> FALSE, pose |-> getDefaultPose]

\* App's targetPose (App.tsx 92-105)
targetPoseOf(timeline, ph) ==
    LET floorIndex == ph \div PH_DEN
        ceilIndex == (ph + PH_DEN - 1) \div PH_DEN
        t == ph - floorIndex * PH_DEN
        currentKeyframeIndex == roundPlayhead(ph)
    IN  IF hasFrame(timeline, floorIndex) /\ hasFrame(timeline, ceilIndex) /\ t > 0
        THEN [defined |-> TRUE,
              pose |-> descale(interpolatePose(timeline.frames[floorIndex + 1].pose,
                                               timeline.frames[ceilIndex + 1].pose,
                                               (t * T_DEN) \div PH_DEN, "sine"))]
        ELSE IF hasFrame(timeline, currentKeyframeIndex)
        THEN [defined |-> TRUE, pose |-> timeline.frames[currentKeyframeIndex + 1].pose]
        ELSE NoTarget

\* const initialTimeline = { frames: [{ id: Date.now(), pose: getDefaultPose() }] }
initialTimeline == [frames |-> <<Frame(0, getDefaultPose, NoAssets)>>]

(***************************************************************************)
(* Inputs and idle values                                                  *)
(***************************************************************************)
\* Torso-level angles are multiples of a quarter turn, up to MaxQuarter.
MaxQuarter == 1
QuarterAngles == {90 * q : q \in (0 - MaxQuarter)..MaxQuarter}

LimbInputs ==
    { getDefaultPose.left, getDefaultPose.right,
      [shoulder |-> 45, elbow |-> 0 - 90, hand |-> 30, hip |-> 60, knee |-> 20, foot |-> 0 - 75] }

OffsetInputs == {Point(0, 0), Point(Px(15), Px(0 - 20))}

PoseInputs ==
    { [groundTilt |-> g, offset |-> o, torso |-> t, waist |-> w, head |-> h,
       left |-> l, right |-> r] :
        g \in QuarterAngles, o \in OffsetInputs, t \in QuarterAngles, w \in QuarterAngles,
        h \in {0, 30}, l \in LimbInputs, r \in LimbInputs }

\* Keys handed to getParentWorldAngle: every hierarchy key and some others.
UnknownKeys == {"neck", "left.toe", "pelvis", ""}
KeyInputs == DOMAIN hierarchy \cup UnknownKeys


FKIdle ==
    /\ pose = getDefaultPose
    /\ fkCall = "none"
    /\ skeleton = NoSkeleton
    /\ jointKey = ""
    /\ parentAngle = NullResult
    /\ extracted = getDefaultPose

IKIdle ==
    /\ chain = <<>>
    /\ target = Point(0, 0)
    /\ iterations = 0
    /\ solvedChain = <<>>
    /\ iter = 0
    /\ ikpc = "idle"
    /\ ikBranch = "none"

PhysIdle ==
    /\ body = NoBody
    /\ pc = "idle"
    /\ idx = 1
    /\ solverPass = 0
    /\ dtInv = 60
    /\ targetSkeleton = NoSkeleton
    /\ ticks = 0
    /\ visits = [integrate |-> 0, solve |-> 0, collide |-> 0]

InterpIdle ==
    /\ poseA = getDefaultPose
    /\ poseB = getDefaultPose
    /\ tArg = 0
    /\ easing = "sine"
    /\ interpolated = getDefaultPose
    /\ interpCalled = FALSE

HookIdle ==
    /\ targetPose = getDefaultPose
    /\ isEnabled = FALSE
    /\ physicalPose = getDefaultPose
    /\ physicsBodyRef = NoBody
    /\ animationFrameId = <<>>
    /\ lastTimeRef = <<>>
    /\ now = 0
    /\ frames = 0
    /\ dtLog = <<>>

\* App before any interaction, but for the history.
AppAtRest ==
    /\ playhead = 0
    /\ isPlaying = FALSE
    /\ direction = 1
    /\ pendingBind = <<>>
    /\ appPc = "idle"
    /\ targetRead = targetPoseOf(initialTimeline, 0)
    /\ nextId = 1

AppIdle ==
    /\ history = getInitialHistory(initialTimeline)
    /\ lastOp = "none"
    /\ AppAtRest

(***************************************************************************)
(* SpecFK: one call of a kinematics entry point on an input pose           *)
(***************************************************************************)
InitFK ==
    /\ pose \in PoseInputs
    /\ fkCall = "none"
    /\ skeleton = NoSkeleton
    /\ jointKey = ""
    /\ parentAngle = NullResult
    /\ extracted = getDefaultPose
    /\ IKIdle /\ PhysIdle /\ InterpIdle /\ HookIdle /\ AppIdle

CallComputeSkeleton ==
    /\ fkCall = "none"
    /\ fkCall' = "computeSkeleton"
    /\ skeleton' = computeSkeleton(pose)
    /\ UNCHANGED <<pose, jointKey, parentAngle, extracted, ikVars, physVars, interpVars, hookVars, appVars>>

CallGetParentWorldAngle ==
    /\ fkCall = "none"
    /\ \E key \in KeyInputs :
          /\ jointKey' = key
          /\ parentAngle' = getParentWorldAngle(key, pose)
    /\ fkCall' = "getParentWorldAngle"
    /\ UNCHANGED <<pose, skeleton, extracted, ikVars, physVars, interpVars, hookVars, appVars>>

\* extractPoseFromPhysicsBody(createPhysicsBodyFromPose(p), p), no step in between
CallExtractAfterCreate ==
    /\ fkCall = "none"
    /\ fkCall' = "extractPoseFromPhysicsBody"
    /\ extracted' = extractPoseFromPhysicsBody(createPhysicsBodyFromPose(pose), pose)
    /\ UNCHANGED <<pose, skeleton, jointKey, parentAngle, ikVars, physVars, interpVars, hookVars, appVars>>

NextFK == CallComputeSkeleton \/ CallGetParentWorldAngle \/ CallExtractAfterCreate
SpecFK == InitFK /\ [][NextFK]_vars

(***************************************************************************)
(* Claims about kinematics and extraction (checked under SpecFK)           *)
(***************************************************************************)
\* pose[side][joint] or pose[key]: the joint's own local angle
localAngle(p, key) ==
    LET parts == split(key)
    IN  IF Len(parts) = 2 THEN Side(p, parts[1])[parts[2]] ELSE p[key]

boneOf(sk, key) == CHOOSE k \in 1..Len(sk.bones) : sk.bones[k].key = key

ArmKeys == {sd \o "." \o j : sd \in {"left", "right"}, j \in {"shoulder", "elbow", "hand"}}
LegKeys == {sd \o "." \o j : sd \in {"left", "right"}, j \in {"hip", "knee", "foot"}}
BoneJointKeys == {"torso", "waist", "head"} \cup ArmKeys \cup LegKeys

\* getParentWorldAngle(key, pose) + the joint's own local angle
composedAngle(p, key) == getParentWorldAngle(key, p).value + localAngle(p, key)

\* C3: getParentWorldAngle returns the null sentinel for every key that is not
\* a key of the hierarchy.
C3_UnknownKeyGivesNull ==
    (fkCall = "getParentWorldAngle" /\ jointKey \notin DOMAIN hierarchy)
        => parentAngle.isNull

\* C4 as claimed: the recorded world angle of every joint's bone equals
\* getParentWorldAngle(key, pose) plus the joint's own local angle.
C4_BoneAngleIsComposedAngle ==
    fkCall = "computeSkeleton" =>
        \A key \in BoneJointKeys :
            /\ ~getParentWorldAngle(key, pose).isNull
            /\ skeleton.bones[boneOf(skeleton, key)].angle = composedAngle(pose, key)

\* C4 as amended: the recorded angle equals getParentWorldAngle(key, pose) plus
\* the local angle for torso, waist, head and the arm joints; for hip, knee and
\* foot the recorded angle is that sum minus a quarter turn, while the bone's
\* end point is still placed along the sum itself.
C4_BoneAngleComposedLegsQuarterTurn ==
    fkCall = "computeSkeleton" =>
        /\ \A key \in BoneJointKeys : ~getParentWorldAngle(key, pose).isNull
        /\ \A key \in BoneJointKeys \ LegKeys :
              skeleton.bones[boneOf(skeleton, key)].angle = composedAngle(pose, key)
        /\ \A key \in LegKeys :
              LET b == skeleton.bones[boneOf(skeleton, key)]
                  len == IF key \in {"left.foot", "right.foot"} THEN L_FOOT
                         ELSE IF key \in {"left.knee", "right.knee"} THEN L_SHIN
                         ELSE L_THIGH
              IN  /\ b.angle = composedAngle(pose, key) - 90
                  /\ b.end = getEndPoint(b.start, composedAngle(pose, key), len)

C4_Witness ==
    /\ fkCall = "computeSkeleton"
    /\ pose.groundTilt # 0 /\ pose.waist # 0 /\ pose.torso # 0
    /\ pose.left.knee # 0 /\ pose.right.elbow # 0
    /\ Len(skeleton.bones) = 17

\* Angles equal up to whole turns, within AngleTol degrees.
AngleTol == 2
sameAngle(a, b) ==
    LET d == (a - b) % 360
    IN  d <= AngleTol \/ d >= 360 - AngleTol
sameAngles(p, q) ==
    /\ sameAngle(p.groundTilt, q.groundTilt)
    /\ sameAngle(p.torso, q.torso)
    /\ sameAngle(p.waist, q.waist)
    /\ sameAngle(p.head, q.head)
    /\ \A j \in {"shoulder", "elbow", "hand", "hip", "knee", "foot"} :
          /\ sameAngle(p.left[j], q.left[j])
          /\ sameAngle(p.right[j], q.right[j])

\* C5: extraction straight after creation reproduces the pose's groundTilt,
\* torso, waist, head and twelve limb angles.
C5_RoundTripReproducesAngles ==
    fkCall = "extractPoseFromPhysicsBody" => sameAngles(extracted, pose)

(***************************************************************************)
(* SpecIK: one call of solveFabrik, one round of its loop per step         *)
(***************************************************************************)
\* Chain points and targets lie on the pixel grid 0..MaxCoord.
MaxCoord == 2
GridPoints == {Point(Px(gx), Px(gy)) : gx \in 0..MaxCoord, gy \in 0..MaxCoord}
RootInputs == {Point(0, 0), Point(Px(1), Px(1))}
\* Chains as forward kinematics hands them over: adjacent joints are distinct.
ChainInputs ==
    {c \in {<<r, m, e>> : r \in RootInputs, m \in GridPoints, e \in GridPoints} :
        c[1] # c[2] /\ c[2] # c[3]}
IterationInputs == {0, 2, DEFAULT_ITERATIONS}

InitIK ==
    /\ chain \in ChainInputs \cup {<<>>}
    /\ target \in GridPoints
    /\ iterations \in IterationInputs
    /\ solvedChain = <<>>
    /\ iter = 0
    /\ ikpc = "idle"
    /\ ikBranch = "none"
    /\ FKIdle /\ PhysIdle /\ InterpIdle /\ HookIdle /\ AppIdle

\* if (chain.length === 0) return []
FabrikEmpty ==
    /\ ikpc = "idle" /\ Len(chain) = 0
    /\ solvedChain' = <<>>
    /\ ikpc' = "done"
    /\ ikBranch' = "empty"
    /\ UNCHANGED <<chain, target, iterations, iter, fkVars, physVars, interpVars, hookVars, appVars>>

\* the out-of-reach branch: stretch the chain towards the target, return
FabrikStretch ==
    /\ ikpc = "idle" /\ Len(chain) > 0
    /\ outOfReach(chain, target)
    /\ solvedChain' = stretchFrom(chain, lengthsOf(chain), target, 1)
    /\ ikpc' = "done"
    /\ ikBranch' = "stretch"
    /\ UNCHANGED <<chain, target, iterations, iter, fkVars, physVars, interpVars, hookVars, appVars>>

\* the reachable branch: enter the while loop with iter = 0
FabrikEnterLoop ==
    /\ ikpc = "idle" /\ Len(chain) > 0
    /\ ~outOfReach(chain, target)
    /\ solvedChain' = chain
    /\ iter' = 0
    /\ ikpc' = "loop"
    /\ ikBranch' = "iterate"
    /\ UNCHANGED <<chain, target, iterations, fkVars, physVars, interpVars, hookVars, appVars>>

\* one forward + backward round
FabrikRound ==
    /\ ikpc = "loop"
    /\ loopContinues(solvedChain, target, iter, iterations)
    /\ solvedChain' = fabrikRound(solvedChain, lengthsOf(chain), chain[1], target)
    /\ iter' = iter + 1
    /\ UNCHANGED <<chain, target, iterations, ikpc, ikBranch, fkVars, physVars, interpVars, hookVars, appVars>>

\* the while condition fails: return solvedChain
FabrikReturn ==
    /\ ikpc = "loop"
    /\ ~loopContinues(solvedChain, target, iter, iterations)
    /\ ikpc' = "done"
    /\ UNCHANGED <<chain, target, iterations, solvedChain, iter, ikBranch,
                   fkVars, physVars, interpVars, hookVars, appVars>>

NextIK == FabrikEmpty \/ FabrikStretch \/ FabrikEnterLoop \/ FabrikRound \/ FabrikReturn
SpecIK == InitIK /\ [][NextIK]_vars

(***************************************************************************)
(* Claims about solveFabrik (checked under SpecIK)                         *)
(***************************************************************************)
\* Rounding allowance, in units of 1/UNIT pixel, for lengths and for the
\* distance of a joint from the root-target ray.
LenTol == 2

withinTolerance(p, tgt) == distance(p, tgt) # NaN /\ distance(p, tgt) <= tolerance

\* p lies on the ray from r towards tgt, within LenTol of it
onRay(p, r, tgt) ==
    LET cross == (p.x - r.x) * (tgt.y - r.y) - (p.y - r.y) * (tgt.x - r.x)
        dot == (p.x - r.x) * (tgt.x - r.x) + (p.y - r.y) * (tgt.y - r.y)
    IN  /\ Abs(cross) <= LenTol * distance(r, tgt)
        /\ dot >= 0

\* C7: for a target farther than l1 + l2 from the root, solveFabrik runs no
\* forward/backward round and returns a chain with the root unchanged, the
\* segment lengths l1 and l2 kept, and every joint on the ray root -> target.
C7_StretchKeepsLengthsOnRay ==
    (ikpc = "done" /\ ikBranch = "stretch") =>
        /\ iter = 0
        /\ Len(solvedChain) = 3
        /\ \A k \in 1..3 : IsFinite(solvedChain[k])
        /\ solvedChain[1] = chain[1]
        /\ \A k \in 1..2 :
              Abs(distance(solvedChain[k], solvedChain[k + 1]) - lengthsOf(chain)[k]) <= LenTol
        /\ Abs(distance(solvedChain[1], solvedChain[3]) - totalLengthOf(chain)) <= LenTol
        /\ \A k \in 2..3 : onRay(solvedChain[k], chain[1], target)

C7_Witness ==
    /\ ikpc = "done" /\ ikBranch = "stretch"
    /\ lengthsOf(chain)[1] > 0 /\ lengthsOf(chain)[2] > 0
    /\ lengthsOf(chain)[1] # lengthsOf(chain)[2]
    /\ solvedChain[2] # chain[2] /\ solvedChain[3] # chain[3]
    /\ target.x # chain[1].x /\ target.y # chain[1].y

\* C8: for a reachable target solveFabrik returns after at most `iterations`
\* rounds, with the end-effector within tolerance of the target or exactly
\* `iterations` rounds executed; a chain that starts within tolerance is
\* returned unchanged after zero rounds.
C8_IterationBound ==
    (ikpc = "done" /\ ikBranch = "iterate") =>
        /\ iter <= iterations
        /\ withinTolerance(solvedChain[Len(solvedChain)], target) \/ iter = iterations
        /\ withinTolerance(chain[Len(chain)], target) => (iter = 0 /\ solvedChain = chain)

\* C9: coinciding adjacent points are skipped, not divided by: the returned
\* chain has only finite coordinates.
C9_ReturnedChainFinite ==
    ikpc = "done" => \A k \in 1..Len(solvedChain) : IsFinite(solvedChain[k])

(***************************************************************************)
(* Spec: calls of updatePhysicsBody on a body built by                     *)
(* createPhysicsBodyFromPose, one loop body per step                       *)
(***************************************************************************)
MaxTicks == 2

\* The rest pose, standing in the middle, or shifted so that the feet start under
\* the ground plane and the right hand beyond the right bound, or shifted so that
\* the feet start under the ground plane and the left foot beyond the left bound.
BodyPoseInputs ==
    {[getDefaultPose EXCEPT !.offset = o] :
        o \in {Point(0, 0), Point(Px(200), Px(115)), Point(0 - Px(325), Px(115))}}

\* A target Skeleton that has an entry for the root only.
RootOnlySkeleton == [joints |-> [root |-> Point(Px(400), Px(700))], bones |-> <<>>]
TargetInputs == {NoSkeleton, computeSkeleton(getDefaultPose), RootOnlySkeleton}
DtInvInputs == {30, 60}

NoVisits == [integrate |-> 0, solve |-> 0, collide |-> 0]

Init ==
    /\ body \in {createPhysicsBodyFromPose(p) : p \in BodyPoseInputs}
    /\ pc = "idle"
    /\ idx = 1
    /\ solverPass = 0
    /\ dtInv = 60
    /\ targetSkeleton = NoSkeleton
    /\ ticks = 0
    /\ visits = NoVisits
    /\ FKIdle /\ IKIdle /\ InterpIdle /\ HookIdle /\ AppIdle

\* updatePhysicsBody(body, dt, targetSkeleton) is called
UpdateBegin ==
    /\ pc = "idle"
    /\ ticks < MaxTicks
    /\ dtInv' \in DtInvInputs
    /\ targetSkeleton' \in TargetInputs
    /\ pc' = "integrate"
    /\ idx' = 1
    /\ solverPass' = 0
    /\ visits' = NoVisits
    /\ UNCHANGED <<body, ticks, fkVars, ikVars, interpVars, hookVars, appVars>>

\* 1. one particle of body.particles.forEach
Integrate ==
    /\ pc = "integrate"
    /\ ~integrateFinished(idx, body)
    /\ body' = [body EXCEPT !.particles[idx] =
                    integrateParticle(body.particles[idx], dtInv, targetSkeleton)]
    /\ idx' = idx + 1
    /\ visits' = [visits EXCEPT !.integrate = @ + 1]
    /\ UNCHANGED <<pc, solverPass, dtInv, targetSkeleton, ticks, fkVars, ikVars, interpVars, hookVars, appVars>>

IntegrateEnd ==
    /\ pc = "integrate"
    /\ integrateFinished(idx, body)
    /\ pc' = "solve"
    /\ solverPass' = 0
    /\ idx' = 1
    /\ UNCHANGED <<body, dtInv, targetSkeleton, ticks, visits, fkVars, ikVars, interpVars, hookVars, appVars>>

\* 2. one constraint of body.constraints.forEach, in pass solverPass
Solve ==
    /\ pc = "solve"
    /\ ~solverFinished(solverPass)
    /\ ~passFinished(idx, body)
    /\ body' = [body EXCEPT !.particles = solveConstraint(body.particles, body.constraints[idx])]
    /\ idx' = idx + 1
    /\ visits' = [visits EXCEPT !.solve = @ + 1]
    /\ UNCHANGED <<pc, solverPass, dtInv, targetSkeleton, ticks, fkVars, ikVars, interpVars, hookVars, appVars>>

SolveNextPass ==
    /\ pc = "solve"
    /\ ~solverFinished(solverPass)
    /\ passFinished(idx, body)
    /\ solverPass' = solverPass + 1
    /\ idx' = 1
    /\ UNCHANGED <<body, pc, dtInv, targetSkeleton, ticks, visits, fkVars, ikVars, interpVars, hookVars, appVars>>

SolveEnd ==
    /\ pc = "solve"
    /\ solverFinished(solverPass)
    /\ pc' = "collide"
    /\ idx' = 1
    /\ UNCHANGED <<body, solverPass, dtInv, targetSkeleton, ticks, visits,
                   fkVars, ikVars, interpVars, hookVars, appVars>>

\* 3. one particle of body.particles.forEach
Collide ==
    /\ pc = "collide"
    /\ ~collideFinished(idx, body)
    /\ body' = [body EXCEPT !.particles[idx] = collideParticle(body.particles[idx])]
    /\ idx' = idx + 1
    /\ visits' = [visits EXCEPT !.collide = @ + 1]
    /\ UNCHANGED <<pc, solverPass, dtInv, targetSkeleton, ticks, fkVars, ikVars, interpVars, hookVars, appVars>>

UpdateReturn ==
    /\ pc = "collide"
    /\ collideFinished(idx, body)
    /\ pc' = "idle"
    /\ ticks' = ticks + 1
    /\ UNCHANGED <<body, idx, solverPass, dtInv, targetSkeleton, visits,
                   fkVars, ikVars, interpVars, hookVars, appVars>>

Next ==
    \/ UpdateBegin
    \/ Integrate \/ IntegrateEnd
    \/ Solve \/ SolveNextPass \/ SolveEnd
    \/ Collide \/ UpdateReturn

Spec == Init /\ [][Next]_vars

(***************************************************************************)
(* SpecAnyBody: the same calls on bodies a caller of the exported function *)
(* may pass: two particles joined by one constraint, any masses            *)
(***************************************************************************)
\* Masses of the two particles, in halves: 0 up to MaxMass.
MaxMass == 2
MassInputs == 0..MaxMass
AnchorInputs == {Point(Px(400), Px(755)), Point(Px(12), Px(300))}
DeltaInputs == {Point(0, 0), Point(Px(3), Px(4)), Point(0, Px(8)), Point(0 - Px(6), 0)}

twoParticleBody(a, d, mA, mB) ==
    LET b == Point(a.x + d.x, a.y + d.y)
    IN  [ particles |-> << Particle("root", a, a, mA), Particle("left.foot", b, b, mB) >>,
          constraints |-> << Constraint(1, 2, Px(5)) >>,
          particleMap |-> [root |-> 1] @@ ("left.foot" :> 2) ]

InitAnyBody ==
    /\ body \in {twoParticleBody(a, d, mA, mB) :
                    a \in AnchorInputs, d \in DeltaInputs, mA \in MassInputs, mB \in MassInputs}
    /\ pc = "idle"
    /\ idx = 1
    /\ solverPass = 0
    /\ dtInv = 60
    /\ targetSkeleton = NoSkeleton
    /\ ticks = 0
    /\ visits = NoVisits
    /\ FKIdle /\ IKIdle /\ InterpIdle /\ HookIdle /\ AppIdle

SpecAnyBody == InitAnyBody /\ [][Next]_vars

(***************************************************************************)
(* SpecInterp: one call of interpolatePose                                 *)
(***************************************************************************)
\* t ranges from MaxOver quarters below 0 to MaxOver quarters above 1.
MaxOver == 1
TInputs == (0 - MaxOver)..(T_DEN + MaxOver)

InterpPoseInputs ==
    { getDefaultPose,
      [getDefaultPose EXCEPT !.offset = Point(Px(15), Px(0 - 20)), !.groundTilt = 0 - 31],
      [getDefaultPose EXCEPT !.torso = 45, !.head = 0 - 90, !.left.elbow = 77, !.right.knee = 0 - 13],
      [getDefaultPose EXCEPT !.waist = 361, !.left.shoulder = 0 - 180, !.right.foot = 9,
                             !.offset = Point(1, 0 - 1)] }

InitInterp ==
    /\ poseA \in InterpPoseInputs
    /\ poseB \in InterpPoseInputs
    /\ tArg \in TInputs
    /\ easing \in {"linear", "sine"}
    /\ interpolated = getDefaultPose
    /\ interpCalled = FALSE
    /\ FKIdle /\ IKIdle /\ PhysIdle /\ HookIdle /\ AppIdle

CallInterpolatePose ==
    /\ ~interpCalled
    /\ interpolated' = interpolatePose(poseA, poseB, tArg, easing)
    /\ interpCalled' = TRUE
    /\ UNCHANGED <<poseA, poseB, tArg, easing, fkVars, ikVars, physVars, hookVars, appVars>>

NextInterp == CallInterpolatePose
SpecInterp == InitInterp /\ [][NextInterp]_vars

(***************************************************************************)
(* Claims about interpolatePose (checked under SpecInterp)                 *)
(***************************************************************************)
\* the pose p with every number counted in 1/EASE_DEN
inEaseUnits(p) ==
    [key \in DOMAIN p |->
        IF isObjectField(key) THEN [k2 \in DOMAIN p[key] |-> p[key][k2] * EASE_DEN]
        ELSE p[key] * EASE_DEN]

\* twice r is the sum of a and b, in every numeric field
isMean(r, a, b) ==
    /\ DOMAIN r = DOMAIN a
    /\ \A key \in DOMAIN a :
          IF isObjectField(key)
          THEN /\ DOMAIN r[key] = DOMAIN a[key]
               /\ \A k2 \in DOMAIN a[key] :
                     2 * r[key][k2] = (a[key][k2] + b[key][k2]) * EASE_DEN
          ELSE 2 * r[key] = (a[key] + b[key]) * EASE_DEN

\* C6: interpolatePose(a, b, 0, e) = a and interpolatePose(a, b, 1, e) = b for
\* both easings, and interpolatePose(a, b, 0.5, linear) is the arithmetic mean
\* of a and b in every numeric field.
C6_InterpolationBoundary ==
    interpCalled =>
        /\ tArg = 0 => interpolated = inEaseUnits(poseA)
        /\ tArg = T_DEN => interpolated = inEaseUnits(poseB)
        /\ (2 * tArg = T_DEN /\ easing = "linear") => isMean(interpolated, poseA, poseB)

C6_Witness ==
    /\ interpCalled
    /\ tArg = T_DEN /\ easing = "sine"
    /\ poseA # poseB
    /\ interpolated = inEaseUnits(poseB)
    /\ interpolated.offset # inEaseUnits(poseA).offset

(***************************************************************************)
(* Claims about updatePhysicsBody                                          *)
(***************************************************************************)
\* C1 (under Spec): within one call the phases run in the order Integrate,
\* Relax, Collide: every particle has been integrated before the first
\* constraint is visited, every pass over every constraint is finished before
\* the first particle is clamped, and no phase's loop body runs during another.
C1_PhaseOrder ==
    /\ visits.solve > 0 => visits.integrate = Len(body.particles)
    /\ visits.collide > 0 => visits.solve = SOLVER_ITERATIONS * Len(body.constraints)
    /\ pc = "integrate" => (visits.solve = 0 /\ visits.collide = 0)
    /\ pc = "solve" => visits.collide = 0
    /\ pc = "idle" /\ ticks > 0 =>
          /\ visits.integrate = Len(body.particles)
          /\ visits.solve = SOLVER_ITERATIONS * Len(body.constraints)
          /\ visits.collide = Len(body.particles)

C1_Witness ==
    /\ pc = "collide" /\ visits.collide = 3
    /\ ticks = 1
    /\ Len(body.particles) = 16 /\ Len(body.constraints) = 14
    /\ visits.solve = 140

\* The constraint the solver is about to visit, if any.
atConstraint == pc = "solve" /\ ~solverFinished(solverPass) /\ ~passFinished(idx, body)

\* C2 (under SpecAnyBody): a particle of mass 0 is never moved by a constraint
\* correction, and when exactly one endpoint has mass 0 the other endpoint
\* takes the whole correction.
C2_ZeroMassIsAnchor ==
    [][ atConstraint =>
          LET c == body.constraints[idx]
              a == c.particleAIndex
              b == c.particleBIndex
              pA == body.particles[a]
              pB == body.particles[b]
              dist == constraintDist(body.particles, c)
              dx == pB.pos.x - pA.pos.x
              dy == pB.pos.y - pA.pos.y
          IN  /\ \A k \in {a, b} :
                    body.particles[k].mass = 0 => body'.particles[k].pos = body.particles[k].pos
              /\ (pA.mass = 0 /\ pB.mass > 0 /\ dist # NaN /\ dist > 0) =>
                    body'.particles[b].pos =
                        Point(pB.pos.x - RDiv(dx * (dist - c.restLength), dist),
                              pB.pos.y - RDiv(dy * (dist - c.restLength), dist))
              /\ (pB.mass = 0 /\ pA.mass > 0 /\ dist # NaN /\ dist > 0) =>
                    body'.particles[a].pos =
                        Point(pA.pos.x + RDiv(dx * (dist - c.restLength), dist),
                              pA.pos.y + RDiv(dy * (dist - c.restLength), dist))
      ]_vars

\* C10 (under SpecAnyBody): a constraint whose endpoints are closer than 0.001
\* when it is visited changes no position, and every position stays finite.
C10_DegenerateConstraintSkipped ==
    [][ (/\ atConstraint
         /\ constraintDist(body.particles, body.constraints[idx]) # NaN
         /\ constraintDist(body.particles, body.constraints[idx]) * 1000 < UNIT)
        => (/\ body'.particles = body.particles
            /\ \A k \in 1..Len(body.particles) : IsFinite(body'.particles[k].pos))
      ]_vars

\* A visit of a degenerate constraint between two massive particles has happened.
C10_Witness ==
    /\ pc = "solve" /\ visits.solve >= 1
    /\ body.particles[1].pos = body.particles[2].pos
    /\ IsFinite(body.particles[1].pos)
    /\ body.particles[1].mass > 0 /\ body.particles[2].mass > 0
    /\ body.particles[1].pos # body.particles[1].prevPos

\* The particle the integration loop is about to visit, if any.
atParticle == pc = "integrate" /\ ~integrateFinished(idx, body)

\* velocity * FRICTION of one coordinate
damped(cur, before) == RDiv((cur - before) * FRICTION, 100)

\* (spring + damping) / mass of one coordinate, for positional error err and
\* damped velocity v
steering(err, v, mass) ==
    RDiv((RDiv(err * STIFFNESS, 10) + RDiv((0 - v) * DAMPING, 10)) * MASS_UNIT, mass)

\* C11 (under Spec): when a target Skeleton is supplied, a particle whose id has
\* no joint entry in it is integrated by velocity and gravity alone, exactly as
\* with no target Skeleton, and a particle that has an entry is integrated with
\* the spring-and-damping acceleration towards its entry added to gravity.
C11_MissingTargetEntryGravityOnly ==
    [][ (atParticle /\ targetSkeleton # NoSkeleton) =>
          LET p == body.particles[idx]
              q == body'.particles[idx]
              vx == damped(p.pos.x, p.prevPos.x)
              vy == damped(p.pos.y, p.prevPos.y)
              n2 == dtInv * dtInv
          IN  /\ q.prevPos = p.pos
              /\ p.id \notin DOMAIN targetSkeleton.joints =>
                    q.pos = Point(p.pos.x + vx + RDiv(Px(GRAVITY.x), n2),
                                  p.pos.y + vy + RDiv(Px(GRAVITY.y), n2))
              /\ p.id \in DOMAIN targetSkeleton.joints =>
                    LET t == targetSkeleton.joints[p.id]
                    IN  q.pos =
                          Point(p.pos.x + vx
                                  + RDiv(Px(GRAVITY.x) + steering(t.x - p.pos.x, vx, p.mass), n2),
                                p.pos.y + vy
                                  + RDiv(Px(GRAVITY.y) + steering(t.y - p.pos.y, vy, p.mass), n2))
      ]_vars

\* In the first call, with a target that has an entry for the root only, the
\* root has been pulled sideways and the torso has only fallen.
C11_Witness ==
    /\ pc = "integrate" /\ idx = 3 /\ ticks = 0
    /\ targetSkeleton = RootOnlySkeleton
    /\ body.particles[1].id = "root" /\ body.particles[2].id = "torso"
    /\ body.particles[1].pos.x # body.particles[1].prevPos.x
    /\ body.particles[2].pos =
          Point(body.particles[2].prevPos.x,
                body.particles[2].prevPos.y + RDiv(Px(GRAVITY.y), dtInv * dtInv))

\* updatePhysicsBody has returned at least once and no call is running.
afterUpdate == pc = "idle" /\ ticks > 0

\* C12 (under SpecAnyBody): after every call of updatePhysicsBody every particle
\* is on or above the ground plane and within the horizontal bounds:
\* pos.y <= GROUND_PLANE_Y and 10 <= pos.x <= W - 10.
C12_CollisionBounds ==
    afterUpdate =>
        \A k \in 1..Len(body.particles) :
            /\ body.particles[k].pos.y <= GROUND_PLANE_Y
            /\ Px(10) <= body.particles[k].pos.x
            /\ body.particles[k].pos.x <= Px(W - 10)

\* A particle that started left of the left bound has been put on it.
C12_Witness ==
    /\ afterUpdate
    /\ body.particles[2].pos.x = Px(10)
    /\ body.particles[2].prevPos.x < Px(10)
    /\ body.particles[2].mass > 0

\* The particle the collision loop is about to visit, if any.
atCollision == pc = "collide" /\ ~collideFinished(idx, body)

\* C13 (under Spec): a foot particle that is below the ground plane when the
\* collision phase visits it leaves the phase with horizontal implicit velocity
\* pos.x - prevPos.x exactly 0; any other particle below the plane leaves it
\* with its horizontal implicit velocity multiplied by GROUND_FRICTION.
C13_FootPinned ==
    [][ (atCollision /\ body.particles[idx].pos.y > GROUND_PLANE_Y) =>
          LET p == body.particles[idx]
              q == body'.particles[idx]
          IN  /\ q.pos.y = GROUND_PLANE_Y
              /\ IF includes(p.id, "foot")
                 THEN q.pos.x - q.prevPos.x = 0
                 ELSE q.pos.x - q.prevPos.x =
                        RDiv((p.pos.x - p.prevPos.x) * GROUND_FRICTION, 100)
      ]_vars

(***************************************************************************)
(* SpecHook: the usePhysics hook after mounting; a step is a change of a   *)
(* prop followed by the effect it triggers, or one animation frame         *)
(***************************************************************************)
\* Clock ticks per second.  Frame times are multiples of 1/TIME_DEN s, so that
\* every capped dt is 1/n s for a whole n.
TIME_DEN == 120
MaxFrames == 2
\* Longest time between two frames, in 1/TIME_DEN s.
MaxGap == 9
FrameGaps == {0, 2, 4, MaxGap}
HookPoseInputs == {getDefaultPose, [getDefaultPose EXCEPT !.offset = Point(Px(200), Px(115))]}

\* requestAnimationFrame(animate): the pending request
Requested == <<"animate">>

\* (mutant) dt is passed on as measured
uncappedDt(dt) == dt
\* Math.min(dt, 1/30), in 1/TIME_DEN s
cappedDt(dt) == Min(dt, TIME_DEN \div 30)

\* (mutant) disabling does not cancel the pending frame
EnableEffectNoCancel(en, tp) ==
    IF en
    THEN /\ lastTimeRef' = <<now>>
         /\ animationFrameId' = Requested
         /\ UNCHANGED <<physicalPose, physicsBodyRef>>
    ELSE /\ physicalPose' = tp
         /\ physicsBodyRef' = createPhysicsBodyFromPose(tp)
         /\ lastTimeRef' = <<>>
         /\ UNCHANGED animationFrameId
\* (mutant) disabling snaps the pose but keeps the body
EnableEffectKeepsBody(en, tp) ==
    IF en
    THEN /\ lastTimeRef' = <<now>>
         /\ animationFrameId' = Requested
         /\ UNCHANGED <<physicalPose, physicsBodyRef>>
    ELSE /\ animationFrameId' = <<>>
         /\ physicalPose' = tp
         /\ lastTimeRef' = <<>>
         /\ UNCHANGED physicsBodyRef
\* The effect on [isEnabled, animate, targetPose], run with the props en and tp
\* after the cleanup of its previous run has cancelled the pending frame.
EnableEffect(en, tp) ==
    IF en
    THEN /\ lastTimeRef' = <<now>>
         /\ animationFrameId' = Requested
         /\ UNCHANGED <<physicalPose, physicsBodyRef>>
    ELSE /\ animationFrameId' = <<>>
         /\ physicalPose' = tp
         /\ physicsBodyRef' = createPhysicsBodyFromPose(tp)
         /\ lastTimeRef' = <<>>

\* The state after the mount effects have run.
InitHook ==
    /\ targetPose \in HookPoseInputs
    /\ isEnabled \in BOOLEAN
    /\ physicalPose = targetPose
    /\ physicsBodyRef = createPhysicsBodyFromPose(targetPose)
    /\ animationFrameId = IF isEnabled THEN Requested ELSE <<>>
    /\ lastTimeRef = IF isEnabled THEN <<0>> ELSE <<>>
    /\ now = 0
    /\ frames = 0
    /\ dtLog = <<>>
    /\ FKIdle /\ IKIdle /\ PhysIdle /\ InterpIdle /\ AppIdle

\* the isEnabled prop changes
SetEnabled ==
    /\ isEnabled' = ~isEnabled
    /\ EnableEffect(~isEnabled, targetPose)
    /\ UNCHANGED <<targetPose, now, frames, dtLog, fkVars, ikVars, physVars, interpVars, appVars>>

\* the targetPose prop changes: animate is re-created and the effect runs again
SetTargetPose ==
    /\ \E tp \in HookPoseInputs \ {targetPose} :
          /\ targetPose' = tp
          /\ EnableEffect(isEnabled, tp)
    /\ UNCHANGED <<isEnabled, now, frames, dtLog, fkVars, ikVars, physVars, interpVars, appVars>>

\* animate(time), called by the pending animation frame request
AnimationFrame ==
    /\ animationFrameId = Requested
    /\ frames < MaxFrames
    /\ \E gap \in FrameGaps :
          LET time == now + gap
              lastTime == IF lastTimeRef = <<>> THEN time ELSE lastTimeRef[1]
              dt == time - lastTime
          IN  /\ now' = time
              /\ IF physicsBodyRef = NoBody
                 THEN UNCHANGED <<lastTimeRef, physicsBodyRef, physicalPose, dtLog>>
                 ELSE /\ lastTimeRef' = <<time>>
                      /\ IF dt > 0
                         THEN LET stepped == updatePhysicsBody(physicsBodyRef,
                                                 TIME_DEN \div cappedDt(dt),
                                                 computeSkeleton(targetPose))
                              IN  /\ physicsBodyRef' = stepped
                                  /\ physicalPose' = extractPoseFromPhysicsBody(stepped, physicalPose)
                                  /\ dtLog' = Append(dtLog, cappedDt(dt))
                         ELSE UNCHANGED <<physicsBodyRef, physicalPose, dtLog>>
    /\ animationFrameId' = Requested
    /\ frames' = frames + 1
    /\ UNCHANGED <<targetPose, isEnabled, fkVars, ikVars, physVars, interpVars, appVars>>

NextHook == SetEnabled \/ SetTargetPose \/ AnimationFrame
SpecHook == InitHook /\ [][NextHook]_vars

(***************************************************************************)
(* Claims about usePhysics (checked under SpecHook)                        *)
(***************************************************************************)
\* C14: whenever physics is disabled, also after the target pose changed while
\* disabled, the body is a fresh one built from the current target pose (every
\* particle at its joint's position of computeSkeleton(targetPose), with
\* prevPos = pos), the returned pose is the target pose, and no frame is pending.
C14_DisabledBodyIsFresh ==
    ~isEnabled =>
        /\ physicalPose = targetPose
        /\ animationFrameId = <<>>
        /\ lastTimeRef = <<>>
        /\ Len(physicsBodyRef.particles) = Len(jointOrder) - 1
        /\ \A k \in 1..Len(physicsBodyRef.particles) :
              LET p == physicsBodyRef.particles[k]
              IN  /\ p.pos = computeSkeleton(targetPose).joints[p.id]
                  /\ p.prevPos = p.pos

\* Physics has been disabled after the body was stepped twice.
C14_Witness ==
    /\ ~isEnabled
    /\ Len(dtLog) = 2
    /\ physicalPose = targetPose
    /\ physicsBodyRef.particles[1].pos = computeSkeleton(targetPose).joints["root"]

\* C15: every dt that animate passes to updatePhysicsBody satisfies
\* 0 < dt <= 1/30 s.
C15_DtClamped ==
    \A i \in 1..Len(dtLog) : 0 < dtLog[i] /\ dtLog[i] * 30 <= TIME_DEN

\* A frame of 1/60 s and then a frame after a stall have each stepped the body.
C15_Witness ==
    /\ Len(dtLog) = 2
    /\ dtLog[1] = 2
    /\ dtLog[2] * 30 = TIME_DEN
    /\ now >= 2 + MaxGap

(***************************************************************************)
(* Claims about the relaxation passes (checked under Spec)                 *)
(***************************************************************************)
Reverse(seq) == [k \in 1..Len(seq) |-> seq[Len(seq) + 1 - k]]

\* The solver is about to start a pass.
atPassStart == pc = "solve" /\ idx = 1 /\ ~solverFinished(solverPass)

\* Every call that has left the solver has run SOLVER_ITERATIONS passes, each
\* over every constraint.
fixedPassCount ==
    (pc = "collide" \/ afterUpdate) =>
        /\ solverPass = SOLVER_ITERATIONS
        /\ visits.solve = SOLVER_ITERATIONS * Len(body.constraints)

\* Positions that differ by no more than OrderTol/UNIT px in either coordinate
\* count as the same: rounding alone stays far below that.
OrderTol == 10
samePositions(ps, qs) ==
    \A k \in 1..Len(ps) :
        /\ Abs(ps[k].pos.x - qs[k].pos.x) <= OrderTol
        /\ Abs(ps[k].pos.y - qs[k].pos.y) <= OrderTol

\* C16 as claimed: every call runs exactly SOLVER_ITERATIONS passes, and the
\* positions a pass produces from a given particle state are the same when the
\* constraints are visited in another order (here: the reverse order).
C16_PassOrderIndependent ==
    /\ fixedPassCount
    /\ atPassStart =>
          samePositions(relaxationPass([body EXCEPT !.constraints = Reverse(@)], 1).particles,
                        relaxationPass(body, 1).particles)

\* C16 as amended: every call runs exactly SOLVER_ITERATIONS passes whatever the
\* state of the body, each pass visiting every constraint once, in array order.
C16_FixedPassCount ==
    /\ fixedPassCount
    /\ (pc = "solve" /\ ~solverFinished(solverPass)) =>
          visits.solve = solverPass * Len(body.constraints) + (idx - 1)

\* A call steered by the root's target entry alone has left the solver.
C16_Witness ==
    /\ pc = "collide" /\ idx = 1
    /\ solverPass = SOLVER_ITERATIONS
    /\ visits.solve = SOLVER_ITERATIONS * Len(body.constraints)
    /\ Len(body.constraints) > 1
    /\ targetSkeleton = RootOnlySkeleton

(***************************************************************************)
(* SpecTrack: a body created from a pose and stepped again and again with  *)
(* dt = 1/60 s towards the skeleton of that pose.  A step is the driver    *)
(* requesting the next call, or the requested call running as a whole.     *)
(* The run has no bound: ticks is not advanced, the state is the body.     *)
(***************************************************************************)
TrackPoseInputs == {getDefaultPose}

InitTrack ==
    /\ \E p \in TrackPoseInputs :
          /\ body = createPhysicsBodyFromPose(p)
          /\ targetSkeleton = computeSkeleton(p)
    /\ pc = "idle"
    /\ idx = 1
    /\ solverPass = 0
    /\ dtInv = 60
    /\ ticks = 0
    /\ visits = NoVisits
    /\ FKIdle /\ IKIdle /\ InterpIdle /\ HookIdle /\ AppIdle

\* the driver asks for the next call: requestAnimationFrame(animate)
TrackRequest ==
    /\ pc = "idle"
    /\ pc' = "update"
    /\ UNCHANGED <<body, idx, solverPass, dtInv, targetSkeleton, ticks, visits,
                   fkVars, ikVars, interpVars, hookVars, appVars>>

\* updatePhysicsBody(body, 1/60, targetSkeleton) runs
TrackStep ==
    /\ pc = "update"
    /\ body' = updatePhysicsBody(body, dtInv, targetSkeleton)
    /\ pc' = "idle"
    /\ UNCHANGED <<idx, solverPass, dtInv, targetSkeleton, ticks, visits,
                   fkVars, ikVars, interpVars, hookVars, appVars>>

NextTrack == TrackRequest \/ TrackStep

\* The driver re-requests a frame at the end of every frame, so the next call is
\* always asked for.
SpecTrack == InitTrack /\ [][NextTrack]_vars /\ WF_vars(TrackRequest)

\* Near zero, for an implicit velocity per step and for a distance to the
\* target: TrackTol/UNIT px.
TrackTol == 500

\* every particle is nearly at rest and nearly on its target joint
settled ==
    \A k \in 1..Len(body.particles) :
        LET p == body.particles[k]
        IN  /\ IsFinite(p.pos)
            /\ distance(p.pos, p.prevPos) <= TrackTol
            /\ distance(p.pos, targetSkeleton.joints[p.id]) <= TrackTol

\* C17 (under SpecTrack): the body eventually reaches, and from then on keeps,
\* a state between calls in which every particle's implicit velocity and its
\* distance to its target joint are near zero.
C17_TracksTarget == <>[](pc = "idle" => settled)

(***************************************************************************)
(* More claims about interpolatePose (checked under SpecInterp)            *)
(***************************************************************************)
\* C18: for t < 0 interpolatePose(a, b, t, e) is interpolatePose(a, b, 0, e),
\* which is a, and for t > 1 it is interpolatePose(a, b, 1, e), which is b, for
\* both easings: t is clamped to [0, 1] before the easing is applied.
C18_TimeClamped ==
    interpCalled =>
        /\ tArg < 0 =>
              /\ interpolated = interpolatePose(poseA, poseB, 0, easing)
              /\ interpolated = inEaseUnits(poseA)
        /\ tArg > T_DEN =>
              /\ interpolated = interpolatePose(poseA, poseB, T_DEN, easing)
              /\ interpolated = inEaseUnits(poseB)

\* A call with t > 1 between two different poses has returned the second one.
C18_Witness ==
    /\ interpCalled
    /\ tArg > T_DEN
    /\ easing = "linear"
    /\ poseA.torso # poseB.torso
    /\ interpolated.torso = poseB.torso * EASE_DEN

(***************************************************************************)
(* More claims about creation and extraction (checked under SpecFK)        *)
(***************************************************************************)
\* Poses handed over as previousPose.
PreviousPoseInputs ==
    {getDefaultPose, [getDefaultPose EXCEPT !.offset = Point(0 - Px(7), Px(3)), !.groundTilt = 90]}

\* C19: extraction straight after creation returns the offset of the pose the
\* body was created from, whatever pose is handed over as previousPose.
C19_OffsetRecovered ==
    fkCall = "extractPoseFromPhysicsBody" =>
        /\ extracted.offset = pose.offset
        /\ \A q \in PreviousPoseInputs :
              extractPoseFromPhysicsBody(createPhysicsBodyFromPose(pose), q).offset = pose.offset

\* The offset of a shifted and tilted pose has been extracted.
C19_Witness ==
    /\ fkCall = "extractPoseFromPhysicsBody"
    /\ pose.offset = Point(Px(15), Px(0 - 20))
    /\ pose.groundTilt # 0 /\ pose.torso # 0
    /\ extracted.offset = Point(Px(15), Px(0 - 20))

\* Ids of the end joints that get the light mass.
HandsAndFeet == {"left.hand", "right.hand", "left.foot", "right.foot"}

\* The mass the particle of joint id is expected to have, in 1/MASS_UNIT.
expectedMass(id) ==
    IF id \in {"root", "torso", "waist"} THEN 3 * MASS_UNIT
    ELSE IF id \in HandsAndFeet THEN MASS_UNIT \div 2
    ELSE MASS_UNIT

\* C20: the body created from a pose has exactly one particle for every joint
\* of the pose's skeleton except the ground joint, at rest on the joint's
\* position, with mass 3.0 for root, torso and waist, 0.5 for hands and feet
\* and 1.0 otherwise, and particleMap gives every id its index.
C20_BodyCreation ==
    fkCall = "extractPoseFromPhysicsBody" =>
        LET b == createPhysicsBodyFromPose(pose)
            joints == computeSkeleton(pose).joints
            ids == DOMAIN joints \ {"ground"}
        IN  /\ Len(b.particles) = Cardinality(ids)
            /\ {b.particles[k].id : k \in 1..Len(b.particles)} = ids
            /\ DOMAIN b.particleMap = ids
            /\ \A k \in 1..Len(b.particles) :
                  LET q == b.particles[k]
                  IN  /\ q.pos = joints[q.id]
                      /\ q.prevPos = q.pos
                      /\ q.mass = expectedMass(q.id)
                      /\ b.particleMap[q.id] = k

\* A body has been created from a shifted, tilted pose: its hands are light
\* and its torso is heavy.
C20_Witness ==
    /\ fkCall = "extractPoseFromPhysicsBody"
    /\ pose.offset # Point(0, 0) /\ pose.groundTilt # 0
    /\ LET b == createPhysicsBodyFromPose(pose)
       IN  /\ b.particles[b.particleMap["left.hand"]].mass = MASS_UNIT \div 2
           /\ b.particles[b.particleMap["torso"]].mass = 3 * MASS_UNIT
           /\ b.particles[b.particleMap["head"]].mass = MASS_UNIT
           /\ "ground" \notin DOMAIN b.particleMap

\* Everything of a body but the positions of its particles.
structureOf(b) ==
    [ constraints |-> b.constraints,
      particleMap |-> b.particleMap,
      idsAndMasses |-> [k \in 1..Len(b.particles) |->
                          <<b.particles[k].id, b.particles[k].mass>>] ]

\* C21: at every point of every tick the constraint list, the rest lengths and
\* endpoint indices, the ids and masses of the particles and the particleMap
\* are those createPhysicsBodyFromPose set; only pos and prevPos change.
C21_StepFrame ==
    \E p \in BodyPoseInputs :
        structureOf(body) = structureOf(createPhysicsBodyFromPose(p))

\* Two ticks have completed and have moved the particles.
C21_Witness ==
    /\ ticks = MaxTicks /\ pc = "idle"
    /\ \A p \in BodyPoseInputs : body.particles # createPhysicsBodyFromPose(p).particles

\* The rounding allowance of one correction, in units of 1/UNIT pixel: the
\* measured distance dist is rounded to a unit, and the correction scales
\* that rounding by restLength / dist.
correctionTol(dist, restLength) == LenTol + restLength \div dist

\* C22: one correction of a constraint whose endpoints both have positive
\* mass and are not degenerately close moves A by mB/(mA+mB) of the length
\* error and B by mA/(mA+mB) of it, the heavier endpoint no further than the
\* lighter one, and leaves the endpoints restLength apart.
C22_MassWeightedCorrection ==
    [][ (/\ atConstraint
         /\ body.particles[body.constraints[idx].particleAIndex].mass > 0
         /\ body.particles[body.constraints[idx].particleBIndex].mass > 0
         /\ constraintDist(body.particles, body.constraints[idx]) # NaN
         /\ constraintDist(body.particles, body.constraints[idx]) * 1000 >= UNIT)
        => LET c == body.constraints[idx]
               pA == body.particles[c.particleAIndex]
               pB == body.particles[c.particleBIndex]
               qA == body'.particles[c.particleAIndex]
               qB == body'.particles[c.particleBIndex]
               dist == constraintDist(body.particles, c)
               err == Abs(dist - c.restLength)
               tol == correctionTol(dist, c.restLength)
               movedA == distance(pA.pos, qA.pos)
               movedB == distance(pB.pos, qB.pos)
           IN  /\ Abs(movedA - RDiv(err * pB.mass, pA.mass + pB.mass)) <= tol
               /\ Abs(movedB - RDiv(err * pA.mass, pA.mass + pB.mass)) <= tol
               /\ pA.mass > pB.mass => movedA <= movedB + tol
               /\ pB.mass > pA.mass => movedB <= movedA + tol
               /\ Abs(distance(qA.pos, qB.pos) - c.restLength) <= tol
      ]_vars

\* A stretched constraint between a heavy and a light particle has been
\* corrected: its endpoints are restLength apart again.
C22_Witness ==
    /\ pc = "solve" /\ idx > 1 /\ ticks = 0 /\ solverPass = 0
    /\ LET c == body.constraints[idx - 1]
           pA == body.particles[c.particleAIndex]
           pB == body.particles[c.particleBIndex]
       IN  /\ pA.mass > pB.mass /\ pB.mass > 0
           /\ Abs(distance(pA.pos, pB.pos) - c.restLength) <= LenTol
           /\ pB.pos # pB.prevPos

(***************************************************************************)
(* SpecIKAny: solveFabrik on chains of any length from 0 to 3               *)
(***************************************************************************)
\* Chains of one and of two points.
ShortChainInputs ==
    {<<r>> : r \in RootInputs}
    \cup {c \in {<<r, e>> : r \in RootInputs, e \in GridPoints} : c[1] # c[2]}

InitIKAny ==
    /\ chain \in ChainInputs \cup ShortChainInputs \cup {<<>>}
    /\ target \in GridPoints
    /\ iterations \in IterationInputs
    /\ solvedChain = <<>>
    /\ iter = 0
    /\ ikpc = "idle"
    /\ ikBranch = "none"
    /\ FKIdle /\ PhysIdle /\ InterpIdle /\ HookIdle /\ AppIdle

SpecIKAny == InitIKAny /\ [][NextIK]_vars

\* C23: for every non-empty chain, every target and every iterations setting,
\* the chain solveFabrik is working on and returns has as many points as the
\* input chain and starts at the input chain's first point, and the input
\* chain is never changed.
C23_RootPinned ==
    /\ []((ikpc \in {"loop", "done"} /\ Len(chain) > 0) =>
            (Len(solvedChain) = Len(chain) /\ solvedChain[1] = chain[1]))
    /\ [][chain' = chain]_vars

\* A call has run at least one round, has moved the other joints and has
\* returned with the root where it was.
C23_Witness ==
    /\ ikpc = "done" /\ ikBranch = "iterate" /\ iter >= 1
    /\ Len(chain) = 2
    /\ solvedChain[1] = chain[1]
    /\ solvedChain[2] # chain[2]

(***************************************************************************)
(* SpecHistory: getInitialHistory, then any pushHistory, undoHistory and   *)
(* redoHistory, on a handful of Timelines                                  *)
(***************************************************************************)
\* Entries a history may hold: past, present and future together.
MaxEntries == 3

oneFrame(p, assets) == [frames |-> <<Frame(0, p, assets)>>]

\* Timelines pushed: two ordinary poses, a pose with a NaN angle (what an IK
\* drag over a degenerate chain commits) and its JSON copy, and the same two
\* assets bound in either order.
HistoryStateInputs ==
    { oneFrame(getDefaultPose, NoAssets),
      oneFrame([getDefaultPose EXCEPT !.torso = 45], NoAssets),
      oneFrame([getDefaultPose EXCEPT !.torso = NaN], NoAssets),
      oneFrame([getDefaultPose EXCEPT !.torso = JsonNull], NoAssets),
      oneFrame(getDefaultPose, Assets(<< <<"head", "u1">>, <<"torso", "u2">> >>)),
      oneFrame(getDefaultPose, Assets(<< <<"torso", "u2">>, <<"head", "u1">> >>)) }

InitHistory ==
    /\ history \in {getInitialHistory(st) : st \in HistoryStateInputs}
    /\ lastOp = "none"
    /\ AppAtRest
    /\ FKIdle /\ IKIdle /\ PhysIdle /\ InterpIdle /\ HookIdle

\* setState(newState)
PushState ==
    /\ Len(history.past) + 2 <= MaxEntries
    /\ \E st \in HistoryStateInputs : history' = pushHistory(history, st)
    /\ lastOp' = "push"
    /\ UNCHANGED <<playhead, isPlaying, direction, pendingBind, appPc, targetRead, nextId,
                   fkVars, ikVars, physVars, interpVars, hookVars>>

\* undo()
UndoState ==
    /\ history' = undoHistory(history)
    /\ lastOp' = "undo"
    /\ UNCHANGED <<playhead, isPlaying, direction, pendingBind, appPc, targetRead, nextId,
                   fkVars, ikVars, physVars, interpVars, hookVars>>

\* redo()
RedoState ==
    /\ history' = redoHistory(history)
    /\ lastOp' = "redo"
    /\ UNCHANGED <<playhead, isPlaying, direction, pendingBind, appPc, targetRead, nextId,
                   fkVars, ikVars, physVars, interpVars, hookVars>>

NextHistory == PushState \/ UndoState \/ RedoState
SpecHistory == InitHistory /\ [][NextHistory]_vars

(***************************************************************************)
(* Claims about the history functions (checked under SpecHistory)          *)
(***************************************************************************)
\* past + [present] + future
entriesOf(h) == h.past \o <<h.present>> \o h.future

\* C24: on every history, redo after undo gives the history back when the
\* past is not empty, undo after redo gives it back when the future is not
\* empty, undo on an empty past and redo on an empty future change nothing,
\* and both keep past + [present] + future.
C24_UndoRedoInverse ==
    /\ Len(history.past) > 0 => redoHistory(undoHistory(history)) = history
    /\ Len(history.future) > 0 => undoHistory(redoHistory(history)) = history
    /\ Len(history.past) = 0 => undoHistory(history) = history
    /\ Len(history.future) = 0 => redoHistory(history) = history
    /\ entriesOf(undoHistory(history)) = entriesOf(history)
    /\ entriesOf(redoHistory(history)) = entriesOf(history)

\* An undo has been made on a history that has both a past and a future left.
C24_Witness ==
    /\ lastOp = "undo"
    /\ Len(history.past) > 0 /\ Len(history.future) > 0
    /\ history.present # history.future[1]

\* Equality of the two assets objects whatever the order of their keys.
assetsEqual(a, b) ==
    /\ a.has = b.has
    /\ Len(a.entries) = Len(b.entries)
    /\ {a.entries[k] : k \in 1..Len(a.entries)} = {b.entries[k] : k \in 1..Len(b.entries)}

\* Deep equality of two Timelines: the same frames in the same order, each
\* with the same id, the same numbers in the pose and the same assets.
deepEqual(t1, t2) ==
    /\ Len(t1.frames) = Len(t2.frames)
    /\ \A k \in 1..Len(t1.frames) :
          /\ k <= Len(t2.frames)
          /\ t1.frames[k].id = t2.frames[k].id
          /\ t1.frames[k].pose = t2.frames[k].pose
          /\ assetsEqual(t1.frames[k].assets, t2.frames[k].assets)

\* C25: a push of a state that differs from the present makes it the
\* present, appends the old present to the past and empties the future, so
\* that nothing can be redone and one undo brings the old present back.
C25_PushClearsRedo ==
    [][ \A st \in HistoryStateInputs :
          (/\ lastOp' = "push"
           /\ history' = pushHistory(history, st)
           /\ ~deepEqual(st, history.present))
          => (/\ history'.present = st
              /\ history'.past = Append(history.past, history.present)
              /\ history'.future = <<>>
              /\ ~canRedo(history')
              /\ undoHistory(history').present = history.present)
      ]_vars

\* no two adjacent entries are deep-equal
noAdjacentEqual(es) == \A k \in 1..(Len(es) - 1) : ~deepEqual(es[k], es[k + 1])

\* C26: a push of a state deep-equal to the present returns the history
\* itself, and no history reached by push, undo and redo holds two adjacent
\* deep-equal entries.
C26_IdenticalPushIsNoOp ==
    /\ \A st \in HistoryStateInputs :
          deepEqual(st, history.present) => pushHistory(history, st) = history
    /\ noAdjacentEqual(entriesOf(history))

(***************************************************************************)
(* SpecApp: the App component. A handler runs when the last render and its *)
(* effects are done (appPc = "idle") and leaves a render due; the render   *)
(* reads targetPose; the effects that follow cap the playhead. A file      *)
(* reader started by handleBindAsset calls back at any later idle moment.  *)
(***************************************************************************)
\* Date.now() advances by one with every edit (a frame added or deleted, a
\* pose committed, an undo, a redo, an image chosen, an image read), and no
\* edit is made after MaxTime.
MaxTime == 3

\* Poses the Canvas commits, the part selected when an image is bound, and
\* the data URL read.
CommitPoseInputs == {[getDefaultPose EXCEPT !.torso = 45]}
PartInputs == {"head"}
UrlInputs == {"u1"}
\* delta of a playback frame, in 1/PH_DEN frames
PlayDeltas == {1, 3}

InitApp ==
    /\ AppIdle
    /\ FKIdle /\ IKIdle /\ PhysIdle /\ InterpIdle /\ HookIdle

\* An edit may still be made.
canEdit == nextId <= MaxTime

\* handleAddFrame: addFrame(currentKeyframeIndex), scrubTo(newIndex)
HandleAddFrame ==
    /\ appPc = "idle" /\ canEdit
    /\ history' = addFrame(history, history.present, roundPlayhead(playhead), nextId)
    /\ nextId' = nextId + 1
    /\ isPlaying' = FALSE
    /\ playhead' = (roundPlayhead(playhead) + 1) * PH_DEN
    /\ lastOp' = "addFrame"
    /\ appPc' = "render"
    /\ UNCHANGED <<direction, pendingBind, targetRead,
                   fkVars, ikVars, physVars, interpVars, hookVars>>

\* handleDeleteFrame: deleteFrame(currentKeyframeIndex), then scrubTo when the
\* last frame was the current one
HandleDeleteFrame ==
    /\ appPc = "idle" /\ canEdit
    /\ LET currentKeyframeIndex == roundPlayhead(playhead)
           n == Len(history.present.frames)
       IN  /\ history' = deleteFrame(history, history.present, currentKeyframeIndex)
           /\ IF currentKeyframeIndex >= n - 1
              THEN /\ isPlaying' = FALSE
                   /\ playhead' = Max(0, n - 2) * PH_DEN
              ELSE UNCHANGED <<isPlaying, playhead>>
    /\ lastOp' = "deleteFrame"
    /\ appPc' = "render"
    /\ nextId' = nextId + 1
    /\ UNCHANGED <<direction, pendingBind, targetRead,
                   fkVars, ikVars, physVars, interpVars, hookVars>>

\* handlePoseCommit: commitPose(newPose, currentKeyframeIndex)
HandlePoseCommit ==
    /\ appPc = "idle" /\ canEdit
    /\ \E newPose \in CommitPoseInputs :
          history' = commitPose(history, history.present, newPose, roundPlayhead(playhead))
    /\ lastOp' = "commitPose"
    /\ appPc' = "render"
    /\ nextId' = nextId + 1
    /\ UNCHANGED <<playhead, isPlaying, direction, pendingBind, targetRead,
                   fkVars, ikVars, physVars, interpVars, hookVars>>

\* the Undo button, enabled while canUndo
Undo ==
    /\ appPc = "idle" /\ canEdit /\ canUndo(history)
    /\ history' = undoHistory(history)
    /\ lastOp' = "undo"
    /\ appPc' = "render"
    /\ nextId' = nextId + 1
    /\ UNCHANGED <<playhead, isPlaying, direction, pendingBind, targetRead,
                   fkVars, ikVars, physVars, interpVars, hookVars>>

\* the Redo button, enabled while canRedo
Redo ==
    /\ appPc = "idle" /\ canEdit /\ canRedo(history)
    /\ history' = redoHistory(history)
    /\ lastOp' = "redo"
    /\ appPc' = "render"
    /\ nextId' = nextId + 1
    /\ UNCHANGED <<playhead, isPlaying, direction, pendingBind, targetRead,
                   fkVars, ikVars, physVars, interpVars, hookVars>>

\* scrubTo(newPosition), from the slider (0 .. numFrames - 1) or a frame button
ScrubTo ==
    /\ appPc = "idle"
    /\ \E newPosition \in 0..((Len(history.present.frames) - 1) * PH_DEN) :
          /\ newPosition # playhead \/ isPlaying
          /\ playhead' = newPosition
    /\ isPlaying' = FALSE
    /\ appPc' = "render"
    /\ UNCHANGED <<history, lastOp, direction, pendingBind, targetRead, nextId,
                   fkVars, ikVars, physVars, interpVars, hookVars>>

\* togglePlay
TogglePlay ==
    /\ appPc = "idle"
    /\ isPlaying' = ~isPlaying
    /\ appPc' = "render"
    /\ UNCHANGED <<history, lastOp, playhead, direction, pendingBind, targetRead, nextId,
                   fkVars, ikVars, physVars, interpVars, hookVars>>

\* animate(time) of usePlayback while playing
PlaybackFrame ==
    /\ appPc = "idle" /\ isPlaying
    /\ \E delta \in PlayDeltas :
          LET nxt == nextPlayhead(playhead, direction, delta, Len(history.present.frames))
          IN  /\ playhead' = nxt.playhead
              /\ direction' = nxt.direction
    /\ appPc' = "render"
    /\ UNCHANGED <<history, lastOp, isPlaying, pendingBind, targetRead, nextId,
                   fkVars, ikVars, physVars, interpVars, hookVars>>

\* handleBindAsset up to reader.readAsDataURL(file): the onload callback now
\* pending holds the bindAsset, the selectedPartKey and the
\* currentKeyframeIndex of this render
HandleBindAsset ==
    /\ appPc = "idle" /\ canEdit
    /\ \E partKey \in PartInputs, url \in UrlInputs :
          pendingBind' = Append(pendingBind,
              [timeline |-> history.present, selectedPartKey |-> partKey,
               currentKeyframeIndex |-> roundPlayhead(playhead), result |-> url])
    /\ nextId' = nextId + 1
    /\ UNCHANGED <<history, lastOp, playhead, isPlaying, direction, appPc, targetRead,
                   fkVars, ikVars, physVars, interpVars, hookVars>>

\* reader.onload: bindAsset(selectedPartKey, event.target.result, currentKeyframeIndex)
ReaderOnload ==
    /\ appPc = "idle" /\ canEdit
    /\ pendingBind # <<>>
    /\ LET cb == Head(pendingBind)
       IN  history' = bindAsset(history, cb.timeline, cb.selectedPartKey, cb.result,
                                cb.currentKeyframeIndex)
    /\ pendingBind' = Tail(pendingBind)
    /\ lastOp' = "bindAsset"
    /\ appPc' = "render"
    /\ nextId' = nextId + 1
    /\ UNCHANGED <<playhead, isPlaying, direction, targetRead,
                   fkVars, ikVars, physVars, interpVars, hookVars>>

\* App's function body runs: targetPose is read
Render ==
    /\ appPc = "render"
    /\ targetRead' = targetPoseOf(history.present, playhead)
    /\ appPc' = "effect"
    /\ UNCHANGED <<history, lastOp, playhead, isPlaying, direction, pendingBind, nextId,
                   fkVars, ikVars, physVars, interpVars, hookVars>>

\* the effects of the render run: usePlayback caps the playhead, which
\* makes another render due
Effects ==
    /\ appPc = "effect"
    /\ playhead' = capPlayhead(playhead, Len(history.present.frames))
    /\ appPc' = IF playhead' # playhead THEN "render" ELSE "idle"
    /\ UNCHANGED <<history, lastOp, isPlaying, direction, pendingBind, targetRead, nextId,
                   fkVars, ikVars, physVars, interpVars, hookVars>>

NextApp ==
    \/ HandleAddFrame \/ HandleDeleteFrame \/ HandlePoseCommit
    \/ Undo \/ Redo
    \/ ScrubTo \/ TogglePlay \/ PlaybackFrame
    \/ HandleBindAsset \/ ReaderOnload
    \/ Render \/ Effects

SpecApp == InitApp /\ [][NextApp]_vars

(***************************************************************************)
(* Claims about the App component (checked under SpecApp)                  *)
(***************************************************************************)
\* C27: whenever App renders, round(playhead) is an index of a frame of the
\* present timeline, and the target pose it reads is never undefined.
C27_CurrentKeyframeExists ==
    /\ appPc = "render" => hasFrame(history.present, roundPlayhead(playhead))
    /\ targetRead.defined

\* C28: the present timeline and every timeline kept in the past or the
\* future of the history has at least one frame.
C28_TimelineNeverEmpty ==
    \A k \in 1..Len(entriesOf(history)) : Len(entriesOf(history)[k].frames) >= 1

\* A frame was added and deleted again, and deleteFrame was then called on
\* the one frame left.
C28_Witness ==
    /\ lastOp = "deleteFrame"
    /\ Len(history.present.frames) = 1
    /\ Len(history.past) = 2
    /\ nextId = MaxTime + 1

\* The callback of the oldest pending file reader runs in this step.
readerCallsBack == pendingBind # <<>> /\ pendingBind' = Tail(pendingBind)

\* C29: when a file reader calls back, the asset is bound in the timeline
\* that is current at that moment, so that the result keeps whatever was
\* committed, added, deleted, undone or redone since the button was clicked.
C29_NoLostUpdate ==
    [][ (/\ readerCallsBack
         /\ hasFrame(Head(pendingBind).timeline, Head(pendingBind).currentKeyframeIndex)
         /\ hasFrame(history.present, Head(pendingBind).currentKeyframeIndex))
        => LET cb == Head(pendingBind)
           IN  history'.present =
                 [history.present EXCEPT !.frames[cb.currentKeyframeIndex + 1].assets =
                     withAsset(@, cb.selectedPartKey, cb.result)]
      ]_vars

(***************************************************************************)
(* A further claim about usePhysics (checked under SpecHook)               *)
(***************************************************************************)
\* C30: from a state in which the effect has run with isEnabled false, every
\* step either enables physics or delivers no animation frame, makes no
\* call of updatePhysicsBody, leaves no frame pending and returns the
\* target pose.
C30_NoSteppingWhileDisabled ==
    [][ ~isEnabled =>
          \/ isEnabled'
          \/ /\ frames' = frames
             /\ dtLog' = dtLog
             /\ animationFrameId' = <<>>
             /\ physicalPose' = targetPose'
      ]_vars

\* Physics was disabled after the body had been stepped, and the target pose
\* was changed while it was disabled.
C30_Witness ==
    /\ ~isEnabled
    /\ Len(dtLog) >= 1 /\ frames = MaxFrames
    /\ targetPose # getDefaultPose
    /\ physicalPose = targetPose
    /\ animationFrameId = <<>>
====
